---- MODULE Spec2Model ----
(***************************************************************************)
(* The risk-managed trade lifecycle of the autobot package:                *)
(*   trading/polymarket_client.py  PolymarketTrader (ledger, paper orders, *)
(*                                 close, limit monitor)                   *)
(*   trading/executor.py           TradeExecutor (evaluate, execute,       *)
(*                                 cooldown map)                           *)
(*   risk/manager.py               RiskManager (risk gate, pause timer)    *)
(*   data/database.py              the SQLite store                        *)
(*   main.py                       SpeedTradingBot (event pipeline, loops) *)
(*                                                                         *)
(* Units.  The code computes in IEEE doubles; the model computes in        *)
(* integers:                                                               *)
(*   money      milli-dollars   (10000.0 USD = 10000000)                   *)
(*   prices     mills           (0.20 = 200)                               *)
(*   shares     whole shares    (size_usd / price, rounded down)           *)
(*   fractions  percent         (0.15 = 15)                                *)
(*   time       whole hours since the start of the modelled run            *)
(*                                                                         *)
(* A definition introduced as a "faulty variant" is not part of the        *)
(* program: each property is checked again with one step replaced by its   *)
(* variant, to show that the property depends on that step.                *)
(*                                                                         *)
(* so that size * price is a money amount without rounding.  Comparisons   *)
(* against a percentage of an amount are cross-multiplied and exact.       *)
(* Paper mode (config.trading.paper_trading = True) throughout; the        *)
(* executor always orders with side = "BUY".                               *)
(***************************************************************************)
EXTENDS Integers, Sequences, FiniteSets

(***************************************************************************)
(* Bounds of the model.                                                    *)
(***************************************************************************)
\* the clock stops at MaxTime hours
MaxTime == 5
\* at most MaxOrders paper orders are filled in a run of the model
MaxOrders == 3
\* the UTC hour of the day at which the modelled run starts
EpochHourUTC == 3
\* at most MaxHandlers _handle_event tasks are suspended at a time
MaxHandlers == 2
\* close_position is called from outside the monitor while the in-memory
\* list of closed trades has fewer than MaxClosedTrades entries
MaxClosedTrades == 3

(***************************************************************************)
(* Configuration and program constants.                                    *)
(***************************************************************************)
\* config.py:112  STARTING_CAPITAL, default 10000
starting_capital == 10000000
\* database.py:347, the local starting_capital of get_bot_state (and the
\* bot_state row that init_database inserts, database.py:153)
bot_state_starting_capital == 10000000
\* config.py:113  RISK_PER_TRADE_PCT, default 0.05
risk_per_trade_pct == 5
\* config.py:114  MAX_POSITION_PCT, default 0.30
max_position_pct == 30
\* config.py:115  MIN_EDGE, default 0.30
min_edge_to_trade == 30
\* config.py:116  MAX_DAILY_LOSS_PCT.  The default is 0.10; the modelled
\* deployment sets 0.04, so that one stop-loss on one position reaches it.
max_daily_loss_pct == 4
\* config.py:117  MAX_CONCURRENT.  The default is 10; the modelled
\* deployment sets 2.
max_concurrent_positions == 2
\* config.py:29..33
stop_loss_pct == 15
take_profit_pct == 30
trailing_stop_pct == 10
breakeven_trigger_pct == 10
\* config.py:39
auto_trade_enabled == TRUE
\* executor.py:21
MARKET_COOLDOWN_HOURS == 4
\* executor.py:162 and executor.py:167
min_confidence == 60
min_liquidity == 1000
\* manager.py:92 (hours=4) and manager.py:102
pause_hours == 4
max_exposure_pct == 80
\* database.py:335
timezone_offset_hours == -6
\* database.py:222 / polymarket_client.py:46 / executor.py:29
closed_trades_limit == 100
\* polymarket_client.py:579  min(0.99, max(0.01, ...))
price_floor == 10
price_ceiling == 990
\* an unset Optional[datetime] (manager.py:48)
NoTime == -1

(***************************************************************************)
(* Inputs.                                                                 *)
(***************************************************************************)
\* The instants at which the clock is read: the start, the end of a cooldown
\* window and of a pause that began at the start, and the end of the run.
Instants == {0, MARKET_COOLDOWN_HOURS, MaxTime}

WatchedToken == "T1"
Tokens == {"T1", "T2", "T3"}

\* The best match _handle_event passes on (find_matches was asked for
\* min_edge = min_edge_to_trade): here one per token that passes every
\* filter of the executor.
Matches ==
    [token : Tokens, edge : {40}, confidence : {80}, liquidity : {5000},
     price : {200}]

\* A MarketMatch as evaluate_opportunity reads it: recommended_token, edge,
\* confidence, liquidity and the price of the recommended side.  The
\* matches, and for each one the four that fail one filter.
Opportunities ==
    Matches \cup
    {[m EXCEPT !.edge = 20] : m \in Matches} \cup
    {[m EXCEPT !.confidence = 50] : m \in Matches} \cup
    {[m EXCEPT !.liquidity = 500] : m \in Matches} \cup
    {[m EXCEPT !.price = 0] : m \in Matches}

\* random.uniform(-0.05, 0.08) around the entry price, in mills
PriceChanges == {-50, 20, 50, 80}

VARIABLES
    now,              \* wall clock, hours
    order_seq,        \* number of paper orders filled so far (ids are timestamps)
    \* PolymarketTrader
    paper_balance, daily_pnl, total_pnl, paper_positions, closed_trades,
    \* TradeExecutor; notified: the callbacks _notify has invoked so far, each
    \* with the id of the order it was told of
    traded_markets, trades_executed, notified,
    \* RiskManager
    trading_paused, pause_until,
    \* SpeedTradingBot: the _handle_event task suspended in send_opportunity_alert
    pending,
    \* the SQLite store
    db_open_positions, db_closed_trades, db_bot_state,
    \* history: the first order id of the current process run, and the time of
    \* the check_status call that armed the pause timer of this RiskManager
    run_first_id, observed_at,
    \* one call of the two position sizers: its inputs and what each returned
    sized,
    \* the last call of RiskManager.validate_trade: its argument and its outcome
    validated,
    \* config.trading.use_trailing_stop, a field of TradingConfig set in
    \* config.py and fixed while the process runs
    use_trailing_stop,
    \* _position_monitor_loop so far: the ids of the positions its sweeps found
    \* at a limit, of those it sent a position-closed alert for, and of those
    \* whose close or alert raised an exception; where sweeps are recorded,
    \* also the highest quote seen per open position and the last sweep
    monitor

trader == <<paper_balance, daily_pnl, total_pnl, paper_positions, closed_trades>>
executor == <<traded_markets, trades_executed, notified>>
risk_manager == <<trading_paused, pause_until, observed_at>>
store == <<db_open_positions, db_closed_trades, db_bot_state>>
vars == <<now, order_seq, trader, executor, risk_manager, pending, store, run_first_id,
          sized, validated, use_trailing_stop, monitor>>

(***************************************************************************)
(* Helpers.                                                                *)
(***************************************************************************)
Min(a, b) == IF a <= b THEN a ELSE b
Max(a, b) == IF a >= b THEN a ELSE b
Bit(b) == IF b THEN 1 ELSE 0

RECURSIVE SumSeq(_, _)
\* sum(f(x) for x in s), f given as a field name
SumSeq(s, field) ==
    IF s = <<>> THEN 0 ELSE Head(s)[field] + SumSeq(Tail(s), field)

RECURSIVE SumSet(_, _)
SumSet(S, field) ==
    IF S = {} THEN 0
    ELSE LET x == CHOOSE y \in S : TRUE IN x[field] + SumSet(S \ {x}, field)

Range(s) == {s[i] : i \in DOMAIN s}

\* date(t, '-6 hours'): the local calendar day of hour t
LocalDay(t) == (EpochHourUTC + 24 + t + timezone_offset_hours) \div 24

(***************************************************************************)
(* data/database.py: the store.  A table is the set of its rows; a row is  *)
(* a record of its columns (booleans are stored as 0/1).  The columns      *)
(* market, paper, created_at, updated_at and last_daily_reset are written  *)
(* but never read by the modelled code and are left out.                   *)
(***************************************************************************)
\* the VALUES tuple of save_open_position
OpenPositionRow(position) ==
    [id |-> position.id,
     token_id |-> position.token_id,
     side |-> position.side,
     size |-> position.size,
     price |-> position.price,
     value |-> position.value,
     risk_amount |-> position.risk_amount,
     stop_loss_price |-> position.stop_loss_price,
     take_profit_price |-> position.take_profit_price,
     breakeven_trigger_price |-> position.breakeven_trigger_price,
     highest_price |-> position.highest_price,
     breakeven_triggered |-> Bit(position.breakeven_triggered),
     trailing_stop_active |-> Bit(position.trailing_stop_active),
     entry_time |-> position.timestamp]

\* INSERT OR REPLACE INTO open_positions
save_open_position(table, position) ==
    {r \in table : r.id # position.id} \cup {OpenPositionRow(position)}

\* the dict get_open_positions builds from a row
OpenPositionOfRow(row) ==
    [id |-> row.id,
     token_id |-> row.token_id,
     side |-> row.side,
     size |-> row.size,
     price |-> row.price,
     value |-> row.value,
     risk_amount |-> row.risk_amount,
     stop_loss_price |-> row.stop_loss_price,
     take_profit_price |-> row.take_profit_price,
     breakeven_trigger_price |-> row.breakeven_trigger_price,
     highest_price |-> row.highest_price,
     breakeven_triggered |-> (row.breakeven_triggered # 0),
     trailing_stop_active |-> (row.trailing_stop_active # 0),
     timestamp |-> row.entry_time]

RECURSIVE RowsById(_)
\* the rows in insertion order: ids grow with the time of the insert
RowsById(table) ==
    IF table = {} THEN <<>>
    ELSE LET first == CHOOSE r \in table : \A q \in table : r.id <= q.id
         IN <<first>> \o RowsById(table \ {first})

\* SELECT * FROM open_positions
get_open_positions(table) ==
    LET rows == RowsById(table)
    IN [i \in DOMAIN rows |-> OpenPositionOfRow(rows[i])]

\* DELETE FROM open_positions WHERE id = ?
delete_open_position(table, position_id) ==
    {r \in table : r.id # position_id}

\* faulty variant: the UPDATE leaves the stop_loss_price column out
update_without_stop(table, position) ==
    {IF r.id = position.id
     THEN [r EXCEPT !.highest_price = position.highest_price,
                    !.breakeven_triggered = Bit(position.breakeven_triggered),
                    !.trailing_stop_active = Bit(position.trailing_stop_active)]
     ELSE r : r \in table}

\* UPDATE open_positions SET highest_price, breakeven_triggered,
\* trailing_stop_active, stop_loss_price WHERE id = ?
update_open_position(table, position) ==
    {IF r.id = position.id
     THEN [r EXCEPT !.highest_price = position.highest_price,
                    !.breakeven_triggered = Bit(position.breakeven_triggered),
                    !.trailing_stop_active = Bit(position.trailing_stop_active),
                    !.stop_loss_price = position.stop_loss_price]
     ELSE r : r \in table}

\* the VALUES tuple of save_closed_trade
ClosedTradeRow(trade) ==
    [trade EXCEPT !.won = Bit(trade.won),
                  !.breakeven_triggered = Bit(trade.breakeven_triggered),
                  !.trailing_stop_active = Bit(trade.trailing_stop_active)]

\* INSERT OR REPLACE INTO closed_trades
save_closed_trade(table, trade) ==
    {r \in table : r.id # trade.id} \cup {ClosedTradeRow(trade)}

\* the dict get_closed_trades builds from a row
ClosedTradeOfRow(row) ==
    [row EXCEPT !.won = (row.won # 0),
                !.breakeven_triggered = (row.breakeven_triggered # 0),
                !.trailing_stop_active = (row.trailing_stop_active # 0)]

RECURSIVE RowsByExitTimeDesc(_)
\* ORDER BY exit_time DESC; rows of one exit_time come latest insert first
RowsByExitTimeDesc(table) ==
    IF table = {} THEN <<>>
    ELSE LET first == CHOOSE r \in table : \A q \in table :
                          \/ r.exit_time > q.exit_time
                          \/ r.exit_time = q.exit_time /\ r.id >= q.id
         IN <<first>> \o RowsByExitTimeDesc(table \ {first})

\* SELECT * FROM closed_trades ORDER BY exit_time DESC LIMIT ?
get_closed_trades(table, limit) ==
    LET rows == RowsByExitTimeDesc(table)
        n == Min(limit, Len(rows))
    IN [i \in 1..n |-> ClosedTradeOfRow(rows[i])]

\* UPDATE bot_state SET paper_balance, daily_pnl, total_pnl
save_bot_state(balance, daily, total) ==
    [paper_balance |-> balance, daily_pnl |-> daily, total_pnl |-> total]

\* get_bot_state: the totals are recomputed from closed_trades, the balance
\* is starting capital + total P&L, and the bot_state row is overwritten
\* with them (the returned dict and the row are the same three values)
\* variant of get_bot_state: the stored row is returned as it is
stored_bot_state(table, t) ==
    db_bot_state

get_bot_state(table, t) ==
    LET total == SumSet(table, "pnl")
        daily == SumSet({r \in table : LocalDay(r.exit_time) = LocalDay(t)}, "pnl")
    IN [paper_balance |-> bot_state_starting_capital + total,
        daily_pnl |-> daily,
        total_pnl |-> total]

\* UPDATE bot_state SET daily_pnl = 0.0
reset_daily_pnl(row) == [row EXCEPT !.daily_pnl = 0]

(***************************************************************************)
(* trading/executor.py                                                     *)
(***************************************************************************)
\* _load_recent_trades_from_db: token -> latest exit time inside the window
load_recent_trades_from_db(table, t) ==
    LET cutoff == t - MARKET_COOLDOWN_HOURS
        trades == Range(get_closed_trades(table, closed_trades_limit))
        recent == {c \in trades : c.exit_time > cutoff}
        toks == {c.token_id : c \in recent}
    IN [tok \in toks |->
          LET times == {c.exit_time : c \in {d \in recent : d.token_id = tok}}
          IN CHOOSE m \in times : \A x \in times : m >= x]

\* the sizing block of evaluate_opportunity (lines 197-209)
\* min(1.2, 0.8 + edge): no lower limit
EdgeMultiplier(edge) == Min(120, 80 + edge)

\* the cap of the sizers left out
size_without_cap(risk_pct, sl_pct, max_pct, equity, edge, confidence) ==
    LET risk_amount == (equity * risk_pct) \div 100
        base_size == (risk_amount * 100) \div sl_pct
    IN (((base_size * EdgeMultiplier(edge)) \div 100) * confidence) \div 100

\* the same block for any configuration: percentages risk_pct, sl_pct, max_pct
inline_size(risk_pct, sl_pct, max_pct, equity, edge, confidence) ==
    LET risk_amount == (equity * risk_pct) \div 100
        base_size == (risk_amount * 100) \div sl_pct
        size_usd == (((base_size * EdgeMultiplier(edge)) \div 100) * confidence) \div 100
        max_position == (equity * max_pct) \div 100
    IN Min(size_usd, max_position)

RiskAmount(equity) == (equity * risk_per_trade_pct) \div 100

MaxPosition(equity) == (equity * max_position_pct) \div 100

SizeUsd(equity, edge, confidence) ==
    inline_size(risk_per_trade_pct, stop_loss_pct, max_position_pct, equity, edge,
                confidence)

\* daily_pnl <= -(equity * max_daily_loss_pct)
DailyLossHit(equity, daily) == daily * 100 <= -(equity * max_daily_loss_pct)

\* faulty variant: evaluate_opportunity without its cooldown check
CooldownIgnored(markets, tok, t) == FALSE

HasOpenPosition(positions, tok) ==
    \E i \in DOMAIN positions : positions[i].token_id = tok

OnCooldown(markets, tok, t) ==
    /\ tok \in DOMAIN markets
    /\ t < markets[tok] + MARKET_COOLDOWN_HOURS

\* faulty variant: evaluate_opportunity without its concurrent-position check
PositionLimitIgnored(open_positions) == FALSE

\* the concurrent-position check of evaluate_opportunity
PositionLimitReached(open_positions) ==
    open_positions >= max_concurrent_positions

\* evaluate_opportunity without its open-position and cooldown checks
evaluate_without_dedup(o) ==
    LET equity == paper_balance
        size_usd == SizeUsd(equity, o.edge, o.confidence)
        rejected(why) == [approved |-> FALSE, reason |-> why, size_usd |-> 0,
                          size_shares |-> 0, risk_amount |-> 0]
    IN CASE o.edge < min_edge_to_trade -> rejected("edge")
         [] o.confidence < min_confidence -> rejected("confidence")
         [] o.liquidity < min_liquidity -> rejected("liquidity")
         [] DailyLossHit(equity, daily_pnl) -> rejected("daily_loss")
         [] PositionLimitReached(Len(paper_positions)) -> rejected("max_positions")
         [] o.price <= 0 -> rejected("invalid_price")
         [] OTHER -> [approved |-> TRUE, reason |-> "approved",
                      size_usd |-> size_usd,
                      size_shares |-> size_usd \div o.price,
                      risk_amount |-> RiskAmount(equity)]

\* evaluate_opportunity: the decision for match o in the current state.  It
\* reads the trader and the cooldown map and changes nothing.
evaluate_opportunity(o) ==
    LET equity == paper_balance
        size_usd == SizeUsd(equity, o.edge, o.confidence)
        rejected(why) == [approved |-> FALSE, reason |-> why, size_usd |-> 0,
                          size_shares |-> 0, risk_amount |-> 0]
    IN CASE HasOpenPosition(paper_positions, o.token) -> rejected("open_position")
         [] OnCooldown(traded_markets, o.token, now) -> rejected("cooldown")
         [] o.edge < min_edge_to_trade -> rejected("edge")
         [] o.confidence < min_confidence -> rejected("confidence")
         [] o.liquidity < min_liquidity -> rejected("liquidity")
         [] DailyLossHit(equity, daily_pnl) -> rejected("daily_loss")
         [] PositionLimitReached(Len(paper_positions)) -> rejected("max_positions")
         [] o.price <= 0 -> rejected("invalid_price")
         [] OTHER -> [approved |-> TRUE, reason |-> "approved",
                      size_usd |-> size_usd,
                      size_shares |-> size_usd \div o.price,
                      risk_amount |-> RiskAmount(equity)]

(***************************************************************************)
(* trading/polymarket_client.py                                            *)
(***************************************************************************)
\* the order dict _paper_order builds
PaperOrder(id, token_id, size, price, risk_amount, t) ==
    LET position_value == size * price
    IN [id |-> id,
        token_id |-> token_id,
        side |-> "BUY",
        size |-> size,
        price |-> price,
        value |-> position_value,
        risk_amount |-> IF risk_amount <= 0
                        THEN (position_value * stop_loss_pct) \div 100
                        ELSE risk_amount,
        stop_loss_price |-> (price * (100 - stop_loss_pct)) \div 100,
        take_profit_price |-> (price * (100 + take_profit_pct)) \div 100,
        breakeven_trigger_price |-> (price * (100 + breakeven_trigger_pct)) \div 100,
        highest_price |-> price,
        breakeven_triggered |-> FALSE,
        trailing_stop_active |-> FALSE,
        timestamp |-> t]

\* place_order and _paper_order refuse the order (return None)
OrderRefused(size, price) ==
    LET position_value == size * price
    IN \/ position_value * 100 > paper_balance * max_position_pct
       \/ DailyLossHit(paper_balance, daily_pnl)
       \/ position_value > paper_balance

\* close_position with the return taken on the risk amount, not on the
\* position value
close_with_return_on_risk(L, position, exit_price, close_reason, t, done) ==
    LET entry_price == position.price
        size == position.size
        position_value == position.value
        pnl == IF position.side = "BUY"
               THEN (exit_price - entry_price) * size
               ELSE (entry_price - exit_price) * size
        daily == L.daily_pnl + pnl
        total == L.total_pnl + pnl
        balance == L.paper_balance + size * exit_price
        \* in tenths of a percent
        pnl_pct == IF position.risk_amount > 0
                   THEN (pnl * 1000) \div position.risk_amount ELSE 0
        closed_trade ==
            [id |-> position.id,
             token_id |-> position.token_id,
             side |-> position.side,
             size |-> size,
             entry_price |-> entry_price,
             exit_price |-> exit_price,
             risk_amount |-> position.risk_amount,
             pnl |-> pnl,
             pnl_pct |-> pnl_pct,
             won |-> (pnl >= 0),
             close_reason |-> close_reason,
             entry_time |-> position.timestamp,
             exit_time |-> t,
             stop_loss_price |-> position.stop_loss_price,
             take_profit_price |-> position.take_profit_price,
             breakeven_triggered |-> position.breakeven_triggered,
             trailing_stop_active |-> position.trailing_stop_active,
             highest_price |-> position.highest_price]
    IN [paper_balance |-> balance,
        daily_pnl |-> daily,
        total_pnl |-> total,
        paper_positions |-> SelectSeq(L.paper_positions, LAMBDA q : q # position),
        closed_trades |-> Append(L.closed_trades, closed_trade),
        db_open_positions |-> IF "delete" \in done
                              THEN delete_open_position(L.db_open_positions, position.id)
                              ELSE L.db_open_positions,
        db_closed_trades |-> IF "trade" \in done
                             THEN save_closed_trade(L.db_closed_trades, closed_trade)
                             ELSE L.db_closed_trades,
        db_bot_state |-> IF "state" \in done
                         THEN save_bot_state(balance, daily, total)
                         ELSE L.db_bot_state]

\* close_position applied to the ledger L = the trader's fields and the
\* store.  done is the set of store writes of this call that take effect:
\* all three in a normal call.
close_position(L, position, exit_price, close_reason, t, done) ==
    LET entry_price == position.price
        size == position.size
        position_value == position.value
        pnl == IF position.side = "BUY"
               THEN (exit_price - entry_price) * size
               ELSE (entry_price - exit_price) * size
        daily == L.daily_pnl + pnl
        total == L.total_pnl + pnl
        balance == L.paper_balance + size * exit_price
        \* in tenths of a percent
        pnl_pct == IF position_value > 0 THEN (pnl * 1000) \div position_value ELSE 0
        closed_trade ==
            [id |-> position.id,
             token_id |-> position.token_id,
             side |-> position.side,
             size |-> size,
             entry_price |-> entry_price,
             exit_price |-> exit_price,
             risk_amount |-> position.risk_amount,
             pnl |-> pnl,
             pnl_pct |-> pnl_pct,
             won |-> (pnl >= 0),
             close_reason |-> close_reason,
             entry_time |-> position.timestamp,
             exit_time |-> t,
             stop_loss_price |-> position.stop_loss_price,
             take_profit_price |-> position.take_profit_price,
             breakeven_triggered |-> position.breakeven_triggered,
             trailing_stop_active |-> position.trailing_stop_active,
             highest_price |-> position.highest_price]
    IN [paper_balance |-> balance,
        daily_pnl |-> daily,
        total_pnl |-> total,
        paper_positions |-> SelectSeq(L.paper_positions, LAMBDA q : q # position),
        closed_trades |-> Append(L.closed_trades, closed_trade),
        db_open_positions |-> IF "delete" \in done
                              THEN delete_open_position(L.db_open_positions, position.id)
                              ELSE L.db_open_positions,
        db_closed_trades |-> IF "trade" \in done
                             THEN save_closed_trade(L.db_closed_trades, closed_trade)
                             ELSE L.db_closed_trades,
        db_bot_state |-> IF "state" \in done
                         THEN save_bot_state(balance, daily, total)
                         ELSE L.db_bot_state]

AllWrites == {"delete", "trade", "state"}

\* the simulated quote of check_position_limits
CurrentPrice(entry_price, price_change) ==
    Min(price_ceiling, Max(price_floor, entry_price + price_change))

\* variant of LimitUpdate: breakeven only when the quote is strictly above
\* the trigger
limit_update_above_trigger(pos, current_price) ==
    LET entry_price == pos.price
        reached == IF pos.side = "BUY"
                   THEN (current_price - entry_price) * 100 > breakeven_trigger_pct * entry_price
                   ELSE (entry_price - current_price) * 100 > breakeven_trigger_pct * entry_price
        highest_price == Max(current_price, pos.highest_price)
        p1 == [pos EXCEPT !.highest_price = highest_price]
        breakeven == ~pos.breakeven_triggered /\ reached
        p2 == IF breakeven
              THEN [p1 EXCEPT !.breakeven_triggered = TRUE,
                              !.stop_loss_price = entry_price,
                              !.trailing_stop_active = use_trailing_stop]
              ELSE p1
        trailing_stop_price == (highest_price * (100 - trailing_stop_pct)) \div 100
        raised == p2.trailing_stop_active /\ trailing_stop_price > p2.stop_loss_price
        p3 == IF raised THEN [p2 EXCEPT !.stop_loss_price = trailing_stop_price] ELSE p2
    IN [position |-> p3, position_updated |-> breakeven \/ raised]

\* variant of LimitUpdate: the trailing stop price is assigned to the stop
\* whenever it differs, not only when it is higher
limit_update_trailing_assigned(pos, current_price) ==
    LET entry_price == pos.price
        reached == IF pos.side = "BUY"
                   THEN (current_price - entry_price) * 100 >= breakeven_trigger_pct * entry_price
                   ELSE (entry_price - current_price) * 100 >= breakeven_trigger_pct * entry_price
        highest_price == Max(current_price, pos.highest_price)
        p1 == [pos EXCEPT !.highest_price = highest_price]
        breakeven == ~pos.breakeven_triggered /\ reached
        p2 == IF breakeven
              THEN [p1 EXCEPT !.breakeven_triggered = TRUE,
                              !.stop_loss_price = entry_price,
                              !.trailing_stop_active = use_trailing_stop]
              ELSE p1
        trailing_stop_price == (highest_price * (100 - trailing_stop_pct)) \div 100
        raised == p2.trailing_stop_active /\ trailing_stop_price # p2.stop_loss_price
        p3 == IF raised THEN [p2 EXCEPT !.stop_loss_price = trailing_stop_price] ELSE p2
    IN [position |-> p3, position_updated |-> breakeven \/ raised]

\* check_position_limits, lines 581-608: the position after the highest
\* price, breakeven and trailing-stop updates for quote current_price, and
\* whether position_updated was set
LimitUpdate(pos, current_price) ==
    LET entry_price == pos.price
        \* pnl_pct >= breakeven_trigger_pct
        reached == IF pos.side = "BUY"
                   THEN (current_price - entry_price) * 100 >= breakeven_trigger_pct * entry_price
                   ELSE (entry_price - current_price) * 100 >= breakeven_trigger_pct * entry_price
        highest_price == Max(current_price, pos.highest_price)
        p1 == [pos EXCEPT !.highest_price = highest_price]
        breakeven == ~pos.breakeven_triggered /\ reached
        p2 == IF breakeven
              THEN [p1 EXCEPT !.breakeven_triggered = TRUE,
                              !.stop_loss_price = entry_price,
                              !.trailing_stop_active = use_trailing_stop]
              ELSE p1
        trailing_stop_price == (highest_price * (100 - trailing_stop_pct)) \div 100
        raised == p2.trailing_stop_active /\ trailing_stop_price > p2.stop_loss_price
        p3 == IF raised THEN [p2 EXCEPT !.stop_loss_price = trailing_stop_price] ELSE p2
    IN [position |-> p3, position_updated |-> breakeven \/ raised]

\* variant of LimitTrigger: the position is closed at the quote
limit_trigger_at_quote(pos, current_price) ==
    LET stop_hit == pos.stop_loss_price > 0 /\ current_price <= pos.stop_loss_price
        stop_reason == IF pos.trailing_stop_active THEN "TRAILING_STOP"
                       ELSE IF pos.breakeven_triggered THEN "BREAKEVEN_STOP"
                       ELSE "STOP_LOSS"
        after_stop == IF stop_hit
                      THEN [reason |-> stop_reason, exit_price |-> current_price]
                      ELSE [reason |-> "NONE", exit_price |-> current_price]
    IN IF current_price >= pos.take_profit_price
       THEN [reason |-> "TAKE_PROFIT", exit_price |-> current_price]
       ELSE after_stop

\* variant of LimitTrigger: take-profit is looked at first and the stop
\* overrides it
limit_trigger_stop_last(pos, current_price) ==
    LET stop_hit == pos.stop_loss_price > 0 /\ current_price <= pos.stop_loss_price
        stop_reason == IF pos.trailing_stop_active THEN "TRAILING_STOP"
                       ELSE IF pos.breakeven_triggered THEN "BREAKEVEN_STOP"
                       ELSE "STOP_LOSS"
        after_profit == IF current_price >= pos.take_profit_price
                        THEN [reason |-> "TAKE_PROFIT", exit_price |-> pos.take_profit_price]
                        ELSE [reason |-> "NONE", exit_price |-> current_price]
    IN IF stop_hit
       THEN [reason |-> stop_reason, exit_price |-> pos.stop_loss_price]
       ELSE after_profit

\* variant of LimitTrigger: the breakeven flag is looked at before the
\* trailing flag
limit_trigger_breakeven_first(pos, current_price) ==
    LET stop_hit == pos.stop_loss_price > 0 /\ current_price <= pos.stop_loss_price
        stop_reason == IF pos.breakeven_triggered THEN "BREAKEVEN_STOP"
                       ELSE IF pos.trailing_stop_active THEN "TRAILING_STOP"
                       ELSE "STOP_LOSS"
        after_stop == IF stop_hit
                      THEN [reason |-> stop_reason, exit_price |-> pos.stop_loss_price]
                      ELSE [reason |-> "NONE", exit_price |-> current_price]
    IN IF current_price >= pos.take_profit_price
       THEN [reason |-> "TAKE_PROFIT", exit_price |-> pos.take_profit_price]
       ELSE after_stop

\* check_position_limits, lines 614-631: the close reason ("NONE": stays
\* open) and the exit price for the updated position
LimitTrigger(pos, current_price) ==
    LET stop_hit == pos.stop_loss_price > 0 /\ current_price <= pos.stop_loss_price
        stop_reason == IF pos.trailing_stop_active THEN "TRAILING_STOP"
                       ELSE IF pos.breakeven_triggered THEN "BREAKEVEN_STOP"
                       ELSE "STOP_LOSS"
        after_stop == IF stop_hit
                      THEN [reason |-> stop_reason, exit_price |-> pos.stop_loss_price]
                      ELSE [reason |-> "NONE", exit_price |-> current_price]
    IN IF current_price >= pos.take_profit_price
       THEN [reason |-> "TAKE_PROFIT", exit_price |-> pos.take_profit_price]
       ELSE after_stop

\* the ledger as close_position reads and writes it
Ledger ==
    [paper_balance |-> paper_balance,
     daily_pnl |-> daily_pnl,
     total_pnl |-> total_pnl,
     paper_positions |-> paper_positions,
     closed_trades |-> closed_trades,
     db_open_positions |-> db_open_positions,
     db_closed_trades |-> db_closed_trades,
     db_bot_state |-> db_bot_state]

RECURSIVE CloseEach(_, _, _, _)
\* the loop of close_positions_at_limit over positions_to_close
CloseEach(L, items, t, done) ==
    IF items = <<>> THEN L
    ELSE CloseEach(close_position(L, Head(items).position, Head(items).current_price,
                                  Head(items).reason, t, done),
                   Tail(items), t, done)

\* check_position_limits for the quotes current[i] of position i: the
\* updated positions, each with its trigger
CheckedPositions(current) ==
    [i \in DOMAIN paper_positions |->
        LET u == LimitUpdate(paper_positions[i], current[i])
            g == LimitTrigger(u.position, current[i])
        IN [position |-> u.position,
            position_updated |-> u.position_updated,
            reason |-> g.reason,
            current_price |-> g.exit_price]]

RECURSIVE UpdateEach(_, _, _)
\* db.update_open_position for every position with position_updated
UpdateEach(table, checked, write_ok) ==
    IF checked = <<>> THEN table
    ELSE UpdateEach(IF Head(checked).position_updated /\ write_ok
                    THEN update_open_position(table, Head(checked).position)
                    ELSE table,
                    Tail(checked), write_ok)

\* close_positions_at_limit: the ledger after the sweep with price changes
\* chg[i]; update_ok: the update_open_position writes take effect; done: the
\* writes of each close_position that take effect
\* variant of SweptLedger: only the first position at a limit is closed
swept_closing_first_only(chg, update_ok, done) ==
    LET current == [i \in DOMAIN paper_positions |->
                      CurrentPrice(paper_positions[i].price, chg[i])]
        checked == CheckedPositions(current)
        L0 == [Ledger EXCEPT
                 !.paper_positions = [i \in DOMAIN checked |-> checked[i].position],
                 !.db_open_positions = UpdateEach(db_open_positions, checked, update_ok)]
        positions_to_close == SelectSeq(checked, LAMBDA c : c.reason # "NONE")
    IN CloseEach(L0, SubSeq(positions_to_close, 1, Min(1, Len(positions_to_close))),
                 now, done)

SweptLedger(chg, update_ok, done) ==
    LET current == [i \in DOMAIN paper_positions |->
                      CurrentPrice(paper_positions[i].price, chg[i])]
        checked == CheckedPositions(current)
        L0 == [Ledger EXCEPT
                 !.paper_positions = [i \in DOMAIN checked |-> checked[i].position],
                 !.db_open_positions = UpdateEach(db_open_positions, checked, update_ok)]
        positions_to_close == SelectSeq(checked, LAMBDA c : c.reason # "NONE")
    IN CloseEach(L0, positions_to_close, now, done)

\* the ids of the positions check_position_limits returns for the price
\* changes chg
TriggeredIds(chg) ==
    LET current == [i \in DOMAIN paper_positions |->
                      CurrentPrice(paper_positions[i].price, chg[i])]
        checked == CheckedPositions(current)
    IN {checked[i].position.id : i \in {j \in DOMAIN checked : checked[j].reason # "NONE"}}

\* an iteration of _position_monitor_loop that found the positions in ids at
\* a limit, sent the alert for those in alerted and got an exception from
\* those in raised
Monitored(ids, alerted, raised) ==
    monitor' = [monitor EXCEPT !.triggered = @ \cup ids,
                               !.reported = @ \cup alerted,
                               !.raised = @ \cup raised]

\* a sweep of check_position_limits with price changes chg, recorded: the
\* highest quote seen for each position still open, and the sweep itself
\* (the positions before it, the quotes, the positions after it, the ids
\* for which db.update_open_position was called, and the list of closed
\* trades that close_positions_at_limit returned)
Observed(chg) ==
    LET current == [i \in DOMAIN paper_positions |->
                      CurrentPrice(paper_positions[i].price, chg[i])]
        checked == CheckedPositions(current)
        index(id) == CHOOSE i \in DOMAIN paper_positions : paper_positions[i].id = id
        seen_before(id) == IF id \in DOMAIN monitor.seen THEN monitor.seen[id]
                           ELSE paper_positions[index(id)].price
    IN monitor' = [monitor EXCEPT
                     !.triggered = @ \cup TriggeredIds(chg),
                     !.reported = @ \cup TriggeredIds(chg),
                     !.seen = [id \in {paper_positions'[j].id :
                                         j \in DOMAIN paper_positions'} |->
                                 Max(seen_before(id), current[index(id)])],
                     !.sweep = [before |-> paper_positions,
                                observed |-> current,
                                after |-> paper_positions',
                                written |-> {checked[i].position.id :
                                               i \in {j \in DOMAIN checked :
                                                        checked[j].position_updated}},
                                closed |-> SubSeq(closed_trades', Len(closed_trades) + 1,
                                                  Len(closed_trades'))]]

SetLedger(L) ==
    /\ paper_balance' = L.paper_balance
    /\ daily_pnl' = L.daily_pnl
    /\ total_pnl' = L.total_pnl
    /\ paper_positions' = L.paper_positions
    /\ closed_trades' = L.closed_trades
    /\ db_open_positions' = L.db_open_positions
    /\ db_closed_trades' = L.db_closed_trades
    /\ db_bot_state' = L.db_bot_state

(***************************************************************************)
(* risk/manager.py                                                         *)
(***************************************************************************)
TotalExposure == SumSeq(paper_positions, "value")

\* exposure_pct > 80, with exposure_pct = 0 when the balance is not positive
ExposureTooHigh(total_exposure, balance) ==
    balance > 0 /\ total_exposure * 100 > max_exposure_pct * balance

\* faulty variant: the pause lasts only while the daily loss limit is hit
PauseWhileLosing ==
    trading_paused /\ DailyLossHit(paper_balance, daily_pnl)

\* the pause is on and has not expired (check_status, lines 76-84)
PauseActive ==
    trading_paused /\ ~(pause_until # NoTime /\ now > pause_until)

\* check_status: the reason it returns with, "" when trading is allowed
\* variant of StatusReason: the position count is looked at before the
\* daily loss
status_counting_positions_first ==
    CASE PauseActive -> "paused"
      [] Len(paper_positions) >= max_concurrent_positions -> "max_positions"
      [] DailyLossHit(paper_balance, daily_pnl) -> "daily_loss"
      [] ExposureTooHigh(TotalExposure, paper_balance) -> "exposure"
      [] OTHER -> ""

StatusReason ==
    CASE PauseActive -> "paused"
      [] DailyLossHit(paper_balance, daily_pnl) -> "daily_loss"
      [] Len(paper_positions) >= max_concurrent_positions -> "max_positions"
      [] ExposureTooHigh(TotalExposure, paper_balance) -> "exposure"
      [] OTHER -> ""

\* status.is_trading_allowed, which can_trade returns
can_trade == StatusReason = ""

\* what check_status does to the RiskManager: an expired pause is cleared,
\* the daily-loss branch arms the timer (_pause_trading)
check_status ==
    IF PauseActive
    THEN UNCHANGED risk_manager
    ELSE IF DailyLossHit(paper_balance, daily_pnl)
    THEN /\ trading_paused' = TRUE
         /\ pause_until' = now + pause_hours
         /\ observed_at' = now
    ELSE /\ trading_paused' = FALSE
         /\ UNCHANGED <<pause_until, observed_at>>

\* validate_trade(size_usd, current_price): what it returns, named by the
\* check that decided, or the exception it ends in.  new_exposure_pct is
\* new_exposure / status.balance * 100, with no test of the balance.
validate_trade(size_usd) ==
    LET new_exposure == TotalExposure + size_usd
    IN CASE StatusReason # "" -> "status"
         [] size_usd * 100 > paper_balance * max_position_pct -> "size"
         [] paper_balance = 0 -> "ZeroDivisionError"
         [] paper_balance > 0 /\ new_exposure * 100 > max_exposure_pct * paper_balance
              -> "exposure"
         [] paper_balance < 0 /\ new_exposure * 100 < max_exposure_pct * paper_balance
              -> "exposure"
         [] OTHER -> "OK"

\* suggest_position_size(edge, confidence) for the configuration risk_pct,
\* sl_pct, max_pct and status.balance = equity
suggest_position_size(risk_pct, sl_pct, max_pct, equity, edge, confidence) ==
    LET risk_amount == (equity * risk_pct) \div 100
        base_size == (risk_amount * 100) \div sl_pct
        edge_multiplier == Min(120, 80 + edge)
        suggested == (((base_size * edge_multiplier) \div 100) * confidence) \div 100
        max_position == (equity * max_pct) \div 100
    IN Max(0, Min(suggested, max_position))

\* PolymarketTrader.__init__: state.get("paper_balance",
\* config.trading.starting_capital)
loaded_paper_balance(state, configured) ==
    IF "paper_balance" \in DOMAIN state THEN state.paper_balance ELSE configured

(***************************************************************************)
(* Start of the process: PolymarketTrader.__init__, TradeExecutor.__init__,*)
(* RiskManager.__init__ on the store as it stands at time t.               *)
(***************************************************************************)
Boot(open_table, closed_table, t) ==
    LET state == get_bot_state(closed_table, t)
    IN /\ paper_balance' = loaded_paper_balance(state, sized.starting_capital)
       /\ daily_pnl' = state.daily_pnl
       /\ total_pnl' = state.total_pnl
       /\ paper_positions' = get_open_positions(open_table)
       /\ closed_trades' = get_closed_trades(closed_table, closed_trades_limit)
       /\ db_bot_state' = save_bot_state(state.paper_balance, state.daily_pnl,
                                         state.total_pnl)
       /\ traded_markets' = load_recent_trades_from_db(closed_table, t)
       /\ trades_executed' = 0
       /\ notified' = notified
       /\ trading_paused' = FALSE
       /\ pause_until' = NoTime
       /\ observed_at' = NoTime
       /\ pending' = [m \in Matches |-> 0]

\* no validate_trade call recorded
NotValidated == [size_usd |-> 0, status |-> "", outcome |-> "none"]

\* no sweep recorded
NotMonitored ==
    [triggered |-> {}, reported |-> {}, raised |-> {}, seen |-> <<>>,
     sweep |-> [before |-> <<>>, observed |-> <<>>, after |-> <<>>, written |-> {},
                closed |-> <<>>]]

\* no sizer call recorded, under the configuration load_config builds when
\* the environment sets none of its variables
NotSized == [starting_capital |-> starting_capital,
             risk_pct |-> risk_per_trade_pct, sl_pct |-> stop_loss_pct,
             max_pct |-> max_position_pct, edge |-> 0, confidence |-> 0,
             computed |-> {}, size_usd |-> 0, suggested |-> 0]

\* init_database on a new file, then the constructors; the balance is set by
\* ProgramInit
Constructed ==
    /\ now = 0
    /\ order_seq = 0
    /\ run_first_id = 1
    /\ db_open_positions = {}
    /\ db_closed_trades = {}
    /\ db_bot_state = save_bot_state(bot_state_starting_capital, 0, 0)
    /\ daily_pnl = get_bot_state({}, 0).daily_pnl
    /\ total_pnl = get_bot_state({}, 0).total_pnl
    /\ paper_positions = get_open_positions({})
    /\ closed_trades = get_closed_trades({}, closed_trades_limit)
    /\ traded_markets = load_recent_trades_from_db({}, 0)
    /\ trades_executed = 0
    /\ notified = <<>>
    /\ validated = NotValidated
    /\ trading_paused = FALSE
    /\ pause_until = NoTime
    /\ observed_at = NoTime
    /\ pending = [m \in Matches |-> 0]
    /\ monitor = NotMonitored

ProgramInit ==
    /\ Constructed
    /\ paper_balance = get_bot_state({}, 0).paper_balance
    /\ use_trailing_stop = TRUE

Init == ProgramInit /\ sized = NotSized

(***************************************************************************)
(* Operations.                                                             *)
(***************************************************************************)
\* time passes
Tick ==
    /\ \E t \in Instants : t > now
    /\ now' = CHOOSE t \in Instants : t > now /\ \A u \in Instants : u > now => t <= u
    /\ UNCHANGED <<order_seq, trader, executor, risk_manager, pending, store,
                   run_first_id, sized, validated, use_trailing_stop, monitor>>

\* the callbacks registered with on_trade: the bot's _on_trade and one more
callbacks == <<"_on_trade", "observer">>

\* _notify stopped by the first callback that raises
notify_until_error(cbs, raising, id) ==
    LET stop == {i \in DOMAIN cbs : cbs[i] \in raising}
        last == IF stop = {} THEN Len(cbs)
                ELSE CHOOSE i \in stop : \A j \in stop : i <= j
    IN [invoked |-> [i \in 1..last |-> [callback |-> cbs[i], id |-> id]],
        escaped |-> stop # {}]

\* _notify for the decision on order id: each callback in cbs is invoked in
\* turn; the exception of a callback in raising is caught and logged inside
\* the loop, so the loop goes on.  escaped: an exception left _notify.
notify(cbs, raising, id) ==
    [invoked |-> [i \in DOMAIN cbs |-> [callback |-> cbs[i], id |-> id]],
     escaped |-> FALSE]

\* the order is filled and recorded before the checks of place_order and
\* _paper_order are made
execute_before_checks(decision, o, auto_enabled, save_ok, raising) ==
    LET order == PaperOrder(order_seq + 1, o.token, decision.size_shares, o.price,
                            decision.risk_amount, now)
    IN [success |-> /\ decision.approved
                    /\ auto_enabled
                    /\ ~OrderRefused(decision.size_shares, o.price),
        paper_balance |-> paper_balance - order.value,
        paper_positions |-> Append(paper_positions, order),
        db_open_positions |-> db_open_positions,
        trades_executed |-> trades_executed + 1,
        traded_markets |-> traded_markets,
        notified |-> <<>>]

\* execute_trade(decision) for match o, with place_order and _paper_order:
\* what it returns and the trader, the store and the executor as it leaves
\* them.  auto_enabled: config.auto_trade_enabled; save_ok:
\* save_open_position takes effect; raising: the callbacks that raise.  An
\* exception that leaves _notify ends in the except clause: False.
execute_trade(decision, o, auto_enabled, save_ok, raising) ==
    LET order == PaperOrder(order_seq + 1, o.token, decision.size_shares, o.price,
                            decision.risk_amount, now)
        told == notify(callbacks, raising, order.id)
        returned_false == [success |-> FALSE,
                           notified |-> <<>>,
                           paper_balance |-> paper_balance,
                           paper_positions |-> paper_positions,
                           db_open_positions |-> db_open_positions,
                           trades_executed |-> trades_executed,
                           traded_markets |-> traded_markets]
    IN CASE ~decision.approved -> returned_false
         [] ~auto_enabled -> returned_false
         [] OrderRefused(decision.size_shares, o.price) -> returned_false
         [] OTHER ->
              [success |-> ~told.escaped,
               notified |-> told.invoked,
               paper_balance |-> paper_balance - order.value,
               paper_positions |-> Append(paper_positions, order),
               db_open_positions |-> IF save_ok
                                     THEN save_open_position(db_open_positions, order)
                                     ELSE db_open_positions,
               trades_executed |-> trades_executed + 1,
               traded_markets |->
                   [tok \in DOMAIN traded_markets \cup {o.token} |->
                      IF tok = o.token THEN now ELSE traded_markets[tok]]]

\* the state after execute_trade has returned r
Executed(r) ==
    /\ r.success => order_seq < MaxOrders
    /\ order_seq' = IF r.success THEN order_seq + 1 ELSE order_seq
    /\ paper_balance' = r.paper_balance
    /\ paper_positions' = r.paper_positions
    /\ db_open_positions' = r.db_open_positions
    /\ trades_executed' = r.trades_executed
    /\ traded_markets' = r.traded_markets
    /\ notified' = notified \o r.notified
    /\ UNCHANGED <<daily_pnl, total_pnl, closed_trades, db_closed_trades, db_bot_state>>

\* process_opportunity(o): evaluate_opportunity, then execute_trade when the
\* decision is approved.  Changes the trader, the executor, the store and
\* order_seq.
process_opportunity(o, save_ok) ==
    LET decision == evaluate_opportunity(o)
    IN IF decision.approved
       THEN \E raising \in SUBSET Range(callbacks) :
              Executed(execute_trade(decision, o, auto_trade_enabled, save_ok, raising))
       ELSE UNCHANGED <<order_seq, trader, executor, store>>

\* a call of TradeExecutor.process_opportunity
ProcessOpportunity ==
    \E o \in Opportunities :
        /\ process_opportunity(o, TRUE)
        /\ UNCHANGED <<now, risk_manager, pending, run_first_id, sized, validated, use_trailing_stop, monitor>>

\* the same call when every opportunity is on one market
ProcessOneMarket ==
    \E o \in {x \in Opportunities : x.token = WatchedToken} :
        /\ process_opportunity(o, TRUE)
        /\ UNCHANGED <<now, risk_manager, pending, run_first_id, sized, validated, use_trailing_stop, monitor>>

\* _handle_event up to its suspension in send_opportunity_alert: the
\* can_trade gate, then parse and match
HandleEventStart ==
    \E m \in Matches :
        /\ SumSet({[n |-> pending[x], k |-> x] : x \in Matches}, "n") < MaxHandlers
        /\ check_status
        /\ pending' = IF can_trade THEN [pending EXCEPT ![m] = @ + 1] ELSE pending
        /\ UNCHANGED <<now, order_seq, trader, executor, store, run_first_id, sized, validated, use_trailing_stop, monitor>>

\* _handle_event resumed: process_opportunity on the best match
HandleEventFinish ==
    \E m \in Matches :
        /\ pending[m] > 0
        /\ pending' = [pending EXCEPT ![m] = @ - 1]
        /\ IF auto_trade_enabled
           THEN process_opportunity(m, TRUE)
           ELSE UNCHANGED <<order_seq, trader, executor, store>>
        /\ UNCHANGED <<now, risk_manager, run_first_id, sized, validated, use_trailing_stop, monitor>>

\* one iteration of RiskManager.monitor_loop
RiskMonitor ==
    /\ check_status
    /\ UNCHANGED <<now, order_seq, trader, executor, pending, store, run_first_id, sized, validated, use_trailing_stop, monitor>>

\* one iteration of _position_monitor_loop: close_positions_at_limit
PositionMonitor ==
    \E chg \in [DOMAIN paper_positions -> PriceChanges] :
        /\ SetLedger(SweptLedger(chg, TRUE, AllWrites))
        /\ Monitored(TriggeredIds(chg), TriggeredIds(chg), {})
        /\ UNCHANGED <<now, order_seq, executor, risk_manager, pending, run_first_id, sized, validated, use_trailing_stop>>

\* TradeExecutor.reset_daily_stats: the scheduler's midnight signal
ResetDaily ==
    /\ daily_pnl' = 0
    /\ db_bot_state' = reset_daily_pnl(db_bot_state)
    /\ UNCHANGED <<now, order_seq, paper_balance, total_pnl, paper_positions,
                   closed_trades, executor, risk_manager, pending,
                   db_open_positions, db_closed_trades, run_first_id, sized, validated, use_trailing_stop, monitor>>

\* the process is stopped between two steps and started again
Restart ==
    /\ Boot(db_open_positions, db_closed_trades, now)
    /\ run_first_id' = order_seq + 1
    /\ UNCHANGED <<now, order_seq, db_open_positions, db_closed_trades, sized, validated, use_trailing_stop, monitor>>

Next ==
    \/ Tick
    \/ ProcessOpportunity
    \/ HandleEventStart
    \/ HandleEventFinish
    \/ RiskMonitor
    \/ PositionMonitor
    \/ ResetDaily
    \/ Restart

Spec == Init /\ [][Next]_vars

\* One market over time: opportunities on one token, sweeps, the risk
\* monitor, the daily reset and restarts, with the clock.
NextMarket ==
    \/ Tick
    \/ ProcessOneMarket
    \/ RiskMonitor
    \/ PositionMonitor
    \/ ResetDaily
    \/ Restart

SpecMarket == Init /\ [][NextMarket]_vars

\* The portfolio at one instant: opportunities on every token, sweeps and
\* restarts.
NextPortfolio ==
    \/ ProcessOpportunity
    \/ PositionMonitor
    \/ Restart

SpecPortfolio == Init /\ [][NextPortfolio]_vars

\* The event pipeline at one instant: handler tasks, sweeps, the risk
\* monitor and the daily reset.
NextPipeline ==
    \/ HandleEventStart
    \/ HandleEventFinish
    \/ RiskMonitor
    \/ PositionMonitor
    \/ ResetDaily

SpecPipeline == Init /\ [][NextPipeline]_vars

(***************************************************************************)
(* close_position called by another caller than the monitor.               *)
(***************************************************************************)
\* the position dict a caller still holds after the position was closed
PositionOfTrade(trade) ==
    [id |-> trade.id,
     token_id |-> trade.token_id,
     side |-> trade.side,
     size |-> trade.size,
     price |-> trade.entry_price,
     value |-> trade.size * trade.entry_price,
     risk_amount |-> trade.risk_amount,
     stop_loss_price |-> trade.stop_loss_price,
     take_profit_price |-> trade.take_profit_price,
     breakeven_trigger_price |->
         (trade.entry_price * (100 + breakeven_trigger_pct)) \div 100,
     highest_price |-> trade.highest_price,
     breakeven_triggered |-> trade.breakeven_triggered,
     trailing_stop_active |-> trade.trailing_stop_active,
     timestamp |-> trade.entry_time]

\* the exit prices such a caller passes
ExitPrices == {170, 260}

\* PolymarketTrader.close_position(position, exit_price) with a position
\* that is open or that was closed before
ClosePosition ==
    \E position \in Range(paper_positions)
                     \cup {PositionOfTrade(c) : c \in Range(closed_trades)} :
      \E exit_price \in ExitPrices :
        /\ Len(closed_trades) < MaxClosedTrades
        /\ SetLedger(close_position(Ledger, position, exit_price, "MANUAL", now,
                                    AllWrites))
        /\ UNCHANGED <<now, order_seq, executor, risk_manager, pending, run_first_id, sized, validated, use_trailing_stop, monitor>>

NextApi ==
    \/ Tick
    \/ ProcessOneMarket
    \/ PositionMonitor
    \/ ClosePosition

SpecApi == Init /\ [][NextApi]_vars

(***************************************************************************)
(* The process dies inside close_position.                                 *)
(***************************************************************************)
\* the store writes of close_position that were committed when the process
\* died: none, the delete, or the delete and the closed trade
CommittedBeforeCrash == {{}, {"delete"}, {"delete", "trade"}}

\* A sweep in which the process dies during the k-th close_position, after
\* the writes in done; the process is then started again.
CrashInClose ==
    \E chg \in [DOMAIN paper_positions -> PriceChanges] :
      \E done \in CommittedBeforeCrash :
        LET current == [i \in DOMAIN paper_positions |->
                          CurrentPrice(paper_positions[i].price, chg[i])]
            checked == CheckedPositions(current)
            L0 == [Ledger EXCEPT
                     !.paper_positions = [i \in DOMAIN checked |-> checked[i].position],
                     !.db_open_positions = UpdateEach(db_open_positions, checked, TRUE)]
            positions_to_close == SelectSeq(checked, LAMBDA c : c.reason # "NONE")
        IN \E k \in DOMAIN positions_to_close :
             LET L1 == CloseEach(L0, SubSeq(positions_to_close, 1, k - 1), now,
                                 AllWrites)
                 L2 == close_position(L1, positions_to_close[k].position,
                                      positions_to_close[k].current_price,
                                      positions_to_close[k].reason, now, done)
             IN /\ db_open_positions' = L2.db_open_positions
                /\ db_closed_trades' = L2.db_closed_trades
                /\ Boot(L2.db_open_positions, L2.db_closed_trades, now)
                /\ run_first_id' = order_seq + 1
                /\ Monitored(TriggeredIds(chg), {}, {})
                /\ UNCHANGED <<now, order_seq, sized, validated, use_trailing_stop>>

NextCrash ==
    \/ ProcessOneMarket
    \/ PositionMonitor
    \/ CrashInClose

SpecCrash == Init /\ [][NextCrash]_vars

(***************************************************************************)
(* The store refuses writes: the db function logs the exception and        *)
(* returns False.                                                          *)
(***************************************************************************)
\* process_opportunity when save_open_position may fail
ProcessOpportunityStore ==
    \E o \in {x \in Opportunities : x.token = WatchedToken} : \E save_ok \in BOOLEAN :
        /\ process_opportunity(o, save_ok)
        /\ UNCHANGED <<now, risk_manager, pending, run_first_id, sized, validated, use_trailing_stop, monitor>>

\* close_positions_at_limit when update_open_position and the three writes
\* of close_position may fail
PositionMonitorStore ==
    \E chg \in [DOMAIN paper_positions -> PriceChanges] :
      \E update_ok \in BOOLEAN : \E done \in SUBSET AllWrites :
        /\ SetLedger(SweptLedger(chg, update_ok, done))
        /\ Monitored(TriggeredIds(chg), TriggeredIds(chg), {})
        /\ UNCHANGED <<now, order_seq, executor, risk_manager, pending, run_first_id, sized, validated, use_trailing_stop>>

NextStore ==
    \/ Tick
    \/ ProcessOpportunityStore
    \/ PositionMonitorStore

SpecStore == Init /\ [][NextStore]_vars

(***************************************************************************)
(* An exception inside an iteration of the position monitor: the loops of  *)
(* close_positions_at_limit and of _position_monitor_loop have no handler  *)
(* of their own, the iteration ends in the except clause of the monitor    *)
(* loop.                                                                   *)
(***************************************************************************)
\* An iteration in which the k-th position at a limit raises: in
\* close_positions_at_limit before close_position has changed the ledger
\* ("close"), after it has ("log"), or in the alert loop of
\* _position_monitor_loop ("alert").
PositionMonitorError ==
    \E chg \in [DOMAIN paper_positions -> PriceChanges] :
      \E at \in {"close", "log", "alert"} :
        LET current == [i \in DOMAIN paper_positions |->
                          CurrentPrice(paper_positions[i].price, chg[i])]
            checked == CheckedPositions(current)
            L0 == [Ledger EXCEPT
                     !.paper_positions = [i \in DOMAIN checked |-> checked[i].position],
                     !.db_open_positions = UpdateEach(db_open_positions, checked, TRUE)]
            positions_to_close == SelectSeq(checked, LAMBDA c : c.reason # "NONE")
        IN \E k \in DOMAIN positions_to_close :
             LET closed == CASE at = "close" -> k - 1
                             [] at = "log" -> k
                             [] at = "alert" -> Len(positions_to_close)
                 alerted == IF at = "alert"
                            THEN {positions_to_close[j].position.id : j \in 1..(k - 1)}
                            ELSE {}
             IN /\ SetLedger(CloseEach(L0, SubSeq(positions_to_close, 1, closed), now,
                                       AllWrites))
                /\ Monitored(TriggeredIds(chg), alerted,
                             {positions_to_close[k].position.id})
                /\ UNCHANGED <<now, order_seq, executor, risk_manager, pending,
                               run_first_id, sized, validated, use_trailing_stop>>

NextMonitor ==
    \/ ProcessOpportunity
    \/ PositionMonitor
    \/ PositionMonitorError

SpecMonitor == Init /\ [][NextMonitor]_vars

(***************************************************************************)
(* execute_trade called with any decision.                                 *)
(***************************************************************************)
\* the decisions a caller passes for match o: the one evaluate_opportunity
\* makes, an approved one of the usual size, one above the position limit,
\* and a rejected one
Decisions(o) ==
    {evaluate_opportunity(o)} \cup
    {[approved |-> a, reason |-> "", size_usd |-> sh * o.price, size_shares |-> sh,
      risk_amount |-> RiskAmount(paper_balance)] :
        a \in BOOLEAN, sh \in {10000, 20000}}

\* a call of TradeExecutor.execute_trade
ExecuteTrade ==
    \E o \in {x \in Matches : x.token = WatchedToken} :
      \E decision \in Decisions(o) : \E auto_enabled \in BOOLEAN :
        /\ \E raising \in SUBSET Range(callbacks) :
             Executed(execute_trade(decision, o, auto_enabled, TRUE, raising))
        /\ UNCHANGED <<now, risk_manager, pending, run_first_id, sized, validated, use_trailing_stop, monitor>>

NextExecute ==
    \/ Tick
    \/ ExecuteTrade
    \/ PositionMonitor

SpecExecute == Init /\ [][NextExecute]_vars

(***************************************************************************)
(* One market quoted at 0.50, with the quotes of the monitor sweep taken   *)
(* one cent apart around the entry price.                                  *)
(***************************************************************************)
\* process_opportunity on a match of the watched market at 0.50
ProcessQuoted ==
    \E o \in {[m EXCEPT !.price = 500] : m \in {x \in Matches : x.token = WatchedToken}} :
        /\ process_opportunity(o, TRUE)
        /\ UNCHANGED <<now, risk_manager, pending, run_first_id, sized, validated, use_trailing_stop, monitor>>

\* close_positions_at_limit with random.uniform(-0.05, 0.08) giving -0.05, 0,
\* 0.01, 0.05 or 0.08
PositionMonitorQuoted ==
    \E chg \in [DOMAIN paper_positions -> {-50, 0, 10, 50, 80}] :
        /\ SetLedger(SweptLedger(chg, TRUE, AllWrites))
        /\ Monitored(TriggeredIds(chg), TriggeredIds(chg), {})
        /\ UNCHANGED <<now, order_seq, executor, risk_manager, pending, run_first_id, sized, validated, use_trailing_stop>>

NextQuotes ==
    \/ Tick
    \/ ProcessQuoted
    \/ PositionMonitorQuoted
    \/ Restart

SpecQuotes == Init /\ [][NextQuotes]_vars

(***************************************************************************)
(* The two position sizers as functions of the configuration, the balance, *)
(* the edge and the confidence: a trader holding any of Equities, one call *)
(* of each sizer.                                                          *)
(***************************************************************************)
\* the inputs of one call: two values of each percentage of the configuration,
\* edges from -1 to 1, confidences from 0 to 1
SizerInputs ==
    {[NotSized EXCEPT !.risk_pct = r, !.sl_pct = sl, !.max_pct = m, !.edge = e,
                      !.confidence = c] :
        r \in {risk_per_trade_pct, 10}, sl \in {10, stop_loss_pct},
        m \in {max_position_pct, 50}, e \in {-100, -20, 0, 40, 100},
        c \in {0, 80, 100}}

InitSizing ==
    /\ Constructed
    /\ use_trailing_stop = TRUE
    /\ paper_balance \in {0, 1000000, starting_capital}
    /\ sized \in SizerInputs

\* the sizing block of evaluate_opportunity
EvaluateSize ==
    /\ "executor" \notin sized.computed
    /\ sized' = [sized EXCEPT
                   !.size_usd = inline_size(sized.risk_pct, sized.sl_pct, sized.max_pct,
                                            paper_balance, sized.edge, sized.confidence),
                   !.computed = @ \cup {"executor"}]
    /\ UNCHANGED <<now, order_seq, trader, executor, risk_manager, pending, store,
                   run_first_id, validated, use_trailing_stop, monitor>>

\* RiskManager.suggest_position_size
SuggestPositionSize ==
    /\ "risk_manager" \notin sized.computed
    /\ check_status
    /\ sized' = [sized EXCEPT
                   !.suggested = suggest_position_size(sized.risk_pct, sized.sl_pct,
                                                       sized.max_pct, paper_balance,
                                                       sized.edge, sized.confidence),
                   !.computed = @ \cup {"risk_manager"}]
    /\ UNCHANGED <<now, order_seq, trader, executor, pending, store, run_first_id,
                   validated, use_trailing_stop, monitor>>

NextSizing ==
    \/ EvaluateSize
    \/ SuggestPositionSize

SpecSizing == InitSizing /\ [][NextSizing]_vars

(***************************************************************************)
(* The first start on a new database under a configured starting capital   *)
(* (STARTING_CAPITAL read by load_config), then one call of each sizer.    *)
(***************************************************************************)
\* 5000, 10000 and 20000 USD
StartingCapitals == {5000000, starting_capital, 20000000}

InitStart ==
    /\ Constructed
    /\ use_trailing_stop = TRUE
    /\ sized \in {[i EXCEPT !.starting_capital = c] :
                    i \in SizerInputs, c \in StartingCapitals}
    /\ paper_balance = loaded_paper_balance(get_bot_state({}, 0), sized.starting_capital)

SpecStart == InitStart /\ [][NextSizing]_vars

(***************************************************************************)
(* The position monitor on one market entered at 0.50, with the trailing   *)
(* stop configured on or off, each sweep recorded.                         *)
(***************************************************************************)
InitSweeps ==
    /\ Constructed
    /\ paper_balance = get_bot_state({}, 0).paper_balance
    /\ use_trailing_stop \in BOOLEAN
    /\ sized = NotSized

PositionMonitorObserved ==
    \E chg \in [DOMAIN paper_positions -> {-50, 0, 10, 50, 80}] :
        /\ SetLedger(SweptLedger(chg, TRUE, AllWrites))
        /\ Observed(chg)
        /\ UNCHANGED <<now, order_seq, executor, risk_manager, pending, run_first_id,
                       sized, validated, use_trailing_stop>>

NextSweeps ==
    \/ Tick
    \/ ProcessQuoted
    \/ PositionMonitorObserved
    \/ Restart

SpecSweeps == InitSweeps /\ [][NextSweeps]_vars

(***************************************************************************)
(* Three markets, the monitor, and restarts with the trailing-stop setting *)
(* of TradingConfig edited or left as it was.                              *)
(***************************************************************************)
\* a restart after use_trailing_stop was set in config.py
RestartConfigured ==
    \E flag \in BOOLEAN :
        /\ Boot(db_open_positions, db_closed_trades, now)
        /\ run_first_id' = order_seq + 1
        /\ use_trailing_stop' = flag
        /\ UNCHANGED <<now, order_seq, db_open_positions, db_closed_trades, sized,
                       validated, monitor>>

\* a sweep whose quotes are 0.05 below or 0.02 above the entry price
PositionMonitorNear ==
    \E chg \in [DOMAIN paper_positions -> {-50, 20}] :
        /\ SetLedger(SweptLedger(chg, TRUE, AllWrites))
        /\ Monitored(TriggeredIds(chg), TriggeredIds(chg), {})
        /\ UNCHANGED <<now, order_seq, executor, risk_manager, pending, run_first_id,
                       sized, validated, use_trailing_stop>>

NextReasons ==
    \/ ProcessOpportunity
    \/ PositionMonitorNear
    \/ RestartConfigured

SpecReasons == Init /\ [][NextReasons]_vars

(***************************************************************************)
(* The sweep on positions in any sub-state the monitor can leave them in:  *)
(* up to two positions of 2000, entered at 0.10 or 0.20; not at breakeven, *)
(* at breakeven with the stop at the entry price (trailing or not), or     *)
(* with the trailing stop raised under a highest quote of entry + 0.08 or  *)
(* entry + 0.05.                                                           *)
(***************************************************************************)
\* the position with this id and token as _paper_order creates it and as
\* check_position_limits updates it
SweptSubStates(id, tok) ==
    UNION {LET fresh == PaperOrder(id, tok, 2000000 \div entry, entry, 500000, 0)
               at_entry == [fresh EXCEPT !.breakeven_triggered = TRUE,
                                         !.stop_loss_price = entry,
                                         !.highest_price = (entry * 110) \div 100]
               highest == IF entry = 100 THEN 180 ELSE 250
           IN {fresh,
               at_entry,
               [at_entry EXCEPT !.trailing_stop_active = TRUE],
               [at_entry EXCEPT !.trailing_stop_active = TRUE,
                                !.highest_price = highest,
                                !.stop_loss_price = (highest * 90) \div 100]} :
           entry \in {100, 200}}

InitTrigger ==
    /\ now = 0
    /\ run_first_id = 1
    /\ order_seq \in 0..max_concurrent_positions
    /\ paper_positions \in
         CASE order_seq = 0 -> {<<>>}
           [] order_seq = 1 -> {<<p>> : p \in SweptSubStates(1, "T1")}
           [] OTHER -> {<<p, q>> : p \in SweptSubStates(1, "T1"),
                                  q \in SweptSubStates(2, "T2")}
    /\ paper_balance = starting_capital - SumSeq(paper_positions, "value")
    /\ daily_pnl = 0
    /\ total_pnl = 0
    /\ closed_trades = <<>>
    /\ traded_markets = [tok \in {p.token_id : p \in Range(paper_positions)} |-> 0]
    /\ trades_executed = order_seq
    /\ notified = <<>>
    /\ trading_paused = FALSE
    /\ pause_until = NoTime
    /\ observed_at = NoTime
    /\ pending = [m \in Matches |-> 0]
    /\ db_open_positions = {OpenPositionRow(p) : p \in Range(paper_positions)}
    /\ db_closed_trades = {}
    /\ db_bot_state = save_bot_state(starting_capital, 0, 0)
    /\ sized = NotSized
    /\ validated = NotValidated
    /\ use_trailing_stop \in BOOLEAN
    /\ monitor = NotMonitored

PositionMonitorWide ==
    \E chg \in [DOMAIN paper_positions -> {-50, 10, 50, 80}] :
        /\ SetLedger(SweptLedger(chg, TRUE, AllWrites))
        /\ Observed(chg)
        /\ UNCHANGED <<now, order_seq, executor, risk_manager, pending, run_first_id,
                       sized, validated, use_trailing_stop>>

NextTrigger ==
    \/ PositionMonitorWide
    \/ Tick

SpecTrigger == InitTrigger /\ [][NextTrigger]_vars

(***************************************************************************)
(* The RiskManager on any ledger: a trader with a balance below, at or     *)
(* above zero, a daily pnl on either side of zero, up to two open          *)
(* positions of 3000 each, and the pause off, on, or expired.              *)
(***************************************************************************)
InitRisk ==
    /\ now = 0
    /\ run_first_id = 1
    /\ paper_balance \in {-1000000, 0, 3000000, starting_capital}
    /\ daily_pnl \in {-500000, 0, 100000}
    /\ total_pnl = daily_pnl
    /\ order_seq \in 0..max_concurrent_positions
    /\ paper_positions = [i \in 1..order_seq |->
                            PaperOrder(i, IF i = 1 THEN "T1" ELSE "T2", 15000, 200,
                                       500000, 0)]
    /\ closed_trades = <<>>
    /\ traded_markets = [tok \in {p.token_id : p \in Range(paper_positions)} |-> 0]
    /\ trades_executed = order_seq
    /\ notified = <<>>
    /\ trading_paused \in BOOLEAN
    /\ pause_until \in IF trading_paused THEN {0, pause_hours} ELSE {NoTime}
    /\ observed_at = IF trading_paused THEN 0 ELSE NoTime
    /\ pending = [m \in Matches |-> 0]
    /\ db_open_positions = {OpenPositionRow(p) : p \in Range(paper_positions)}
    /\ db_closed_trades = {}
    /\ db_bot_state = save_bot_state(paper_balance, daily_pnl, total_pnl)
    /\ sized = NotSized
    /\ validated = NotValidated
    /\ use_trailing_stop = TRUE
    /\ monitor = NotMonitored

\* a call of RiskManager.validate_trade
ValidateTrade ==
    \E size_usd \in {0, 1000000, 4000000} :
        /\ check_status
        /\ validated' = [size_usd |-> size_usd, status |-> StatusReason,
                         outcome |-> validate_trade(size_usd)]
        /\ UNCHANGED <<now, order_seq, trader, executor, pending, store, run_first_id,
                       sized, use_trailing_stop, monitor>>

NextRisk ==
    \/ Tick
    \/ RiskMonitor
    \/ ValidateTrade
    \/ SuggestPositionSize

SpecRisk == InitRisk /\ [][NextRisk]_vars

(***************************************************************************)
(* Properties.                                                             *)
(***************************************************************************)
\* every trade the bot has made: the open positions and the closed trades
Trades ==
    {[id |-> p.id, token_id |-> p.token_id, entry_time |-> p.timestamp] :
        p \in Range(paper_positions)}
    \cup
    {[id |-> r.id, token_id |-> r.token_id, entry_time |-> r.entry_time] :
        r \in db_closed_trades}

\* C1: no two positions are open on one token, and a position on a token is
\* never opened less than MARKET_COOLDOWN_HOURS after the previous position
\* on that token was opened, restarts included.
C1_NoReentryInsideCooldown ==
    /\ \A i, j \in DOMAIN paper_positions :
          i # j => paper_positions[i].token_id # paper_positions[j].token_id
    /\ \A a, b \in Trades :
          a.id < b.id /\ a.token_id = b.token_id
             => b.entry_time >= a.entry_time + MARKET_COOLDOWN_HOURS

\* C5: the number of open positions never exceeds max_concurrent_positions.
C5_OpenPositionsWithinLimit ==
    Len(paper_positions) <= max_concurrent_positions

\* C5: the limit is reached and an opportunity on a free token, which passes
\* every other check, is refused because of it
C5_RefusedAtLimit ==
    /\ Len(paper_positions) = max_concurrent_positions
    /\ \E o \in Opportunities : evaluate_opportunity(o).reason = "max_positions"

\* the closed trades on token tok that were opened by the running process,
\* with no later trade and no open position on the token
LastClosedInRun(tok) ==
    {r \in db_closed_trades :
        /\ r.token_id = tok
        /\ r.id >= run_first_id
        /\ ~HasOpenPosition(paper_positions, tok)
        /\ \A x \in Trades : x.token_id = tok => x.id <= r.id}

\* C2 as stated: after a trade on a token is closed at time t, an evaluation
\* on the token before t + MARKET_COOLDOWN_HOURS is rejected for the
\* cooldown, and one at or after it is not rejected for the cooldown.
C2_CooldownFromClose ==
    \A o \in Opportunities : \A r \in LastClosedInRun(o.token) :
        evaluate_opportunity(o).reason = "cooldown"
            <=> now < r.exit_time + MARKET_COOLDOWN_HOURS

\* C2 amended: in the process that opened the trade at time t0, after the
\* trade is closed an evaluation on the token before
\* t0 + MARKET_COOLDOWN_HOURS is rejected for the cooldown, and one at or
\* after it is not rejected for the cooldown.
C2_CooldownFromOpen ==
    \A o \in Opportunities : \A r \in LastClosedInRun(o.token) :
        evaluate_opportunity(o).reason = "cooldown"
            <=> now < r.entry_time + MARKET_COOLDOWN_HOURS

\* C2: a trade closed later than it was opened; the window counted from the
\* open has ended, the one counted from the close has not, and the
\* evaluation is not rejected for the cooldown
C2_WindowFromOpenEnded ==
    \E o \in Opportunities : \E r \in LastClosedInRun(o.token) :
        /\ r.exit_time > r.entry_time
        /\ now >= r.entry_time + MARKET_COOLDOWN_HOURS
        /\ now < r.exit_time + MARKET_COOLDOWN_HOURS
        /\ evaluate_opportunity(o).reason # "cooldown"

\* C3: from the check_status call that observed the daily loss limit until
\* the pause timer it armed has expired, can_trade is false.
C3_PauseSticky ==
    (observed_at # NoTime /\ now <= observed_at + pause_hours) => ~can_trade

\* C3: inside the pause window the daily loss has gone (recovered or reset)
\* and no other condition of the gate holds: only the timer keeps trading off
C3_PausedAfterRecovery ==
    /\ observed_at # NoTime
    /\ now <= observed_at + pause_hours
    /\ ~DailyLossHit(paper_balance, daily_pnl)
    /\ Len(paper_positions) < max_concurrent_positions
    /\ ~ExposureTooHigh(TotalExposure, paper_balance)
    /\ ~can_trade

\* C10: once breakeven_triggered is set for a position, it stays set, the
\* stop is at or above the entry price, and no step (a sweep, a restart that
\* reloads the position) lowers stop_loss_price.
C10_StopNeverLowered ==
    [][/\ \A j \in DOMAIN paper_positions' :
             paper_positions'[j].breakeven_triggered
                => paper_positions'[j].stop_loss_price >= paper_positions'[j].price
       /\ \A i \in DOMAIN paper_positions : \A j \in DOMAIN paper_positions' :
             (/\ paper_positions[i].id = paper_positions'[j].id
              /\ paper_positions[i].breakeven_triggered)
                => /\ paper_positions'[j].breakeven_triggered
                   /\ paper_positions'[j].stop_loss_price
                         >= paper_positions[i].stop_loss_price]_vars

\* C10: a position whose stop the trailing step raised above the entry price
\* has been reloaded from the store by a restart
C10_RaisedStopReloaded ==
    \E i \in DOMAIN paper_positions :
        /\ paper_positions[i].id < run_first_id
        /\ paper_positions[i].breakeven_triggered
        /\ paper_positions[i].stop_loss_price > paper_positions[i].price

\* C4: an order is placed only in a state where the risk gate allows
\* trading (no active pause, no daily loss, positions and exposure within
\* their limits), also when the gate's answer changed after the handler's
\* can_trade check.
C4_OrdersOnlyWhenGateAllows ==
    [][order_seq' > order_seq => can_trade]_vars

\* C6: after a trade executed through the pipeline the total exposure is at
\* most max_exposure_pct of the balance the risk gate reads.
C6_ExposureWithinBudgetAfterTrade ==
    [][order_seq' > order_seq
          => ~ExposureTooHigh(SumSeq(paper_positions', "value"), paper_balance')]_vars

\* C7: each position has at most one closed-trade record, its P&L is counted
\* once, and a position is never both open and closed, also when
\* close_position is called again for a position that was closed.
C7_ClosedOncePerPosition ==
    /\ \A i, j \in DOMAIN closed_trades :
          i # j => closed_trades[i].id # closed_trades[j].id
    /\ total_pnl = SumSet(db_closed_trades, "pnl")
    /\ \A i \in DOMAIN paper_positions : \A j \in DOMAIN closed_trades :
          paper_positions[i].id # closed_trades[j].id

\* C8: whatever the point at which the process died inside close_position,
\* after the restart every position that was opened is in the store either
\* as an open position or as a closed trade, and not as both.
C8_CloseIsOneUnit ==
    \A id \in 1..order_seq :
        (\E r \in db_open_positions : r.id = id)
            # (\E r \in db_closed_trades : r.id = id)

\* C9: memory and store agree on the open positions and on the closed
\* trades, also after a write to the store has failed.
C9_MemoryAgreesWithStore ==
    /\ {p.id : p \in Range(paper_positions)} = {r.id : r \in db_open_positions}
    /\ {c.id : c \in Range(closed_trades)} = {r.id : r \in db_closed_trades}

\* C12: for an edge and a confidence between 0 and 1, the size each sizer
\* returns is at least 0 and at most equity * max_position_pct
C12_SizeWithinBound ==
    (sized.edge \in 0..100 /\ sized.confidence \in 0..100) =>
        /\ "executor" \in sized.computed =>
              /\ sized.size_usd >= 0
              /\ sized.size_usd * 100 <= paper_balance * sized.max_pct
        /\ "risk_manager" \in sized.computed =>
              /\ sized.suggested >= 0
              /\ sized.suggested * 100 <= paper_balance * sized.max_pct

\* both sizers have run on an input for which the cap is what limits the size
C12_SizeCapped ==
    /\ sized.computed = {"executor", "risk_manager"}
    /\ sized.edge = 40 /\ sized.confidence = 80
    /\ paper_balance = starting_capital
    /\ sized.risk_pct = 5 /\ sized.sl_pct = 15 /\ sized.max_pct = 30
    /\ sized.size_usd = 3000000
    /\ sized.suggested = 3000000

\* the sizing formula of the specification, with the edge multiplier limited
\* on both sides
ReferenceSize(risk_pct, sl_pct, max_pct, equity, edge, confidence) ==
    LET risk_amount == (equity * risk_pct) \div 100
        base_size == (risk_amount * 100) \div sl_pct
        edge_mult == Max(80, Min(120, 80 + edge))
        raw == (((base_size * edge_mult) \div 100) * confidence) \div 100
    IN Max(Min(raw, (equity * max_pct) \div 100), 0)

\* C16: the size each sizer returns is the size of the reference formula,
\* for every edge and confidence
C16_SizeEqualsReference ==
    LET reference == ReferenceSize(sized.risk_pct, sized.sl_pct, sized.max_pct,
                                   paper_balance, sized.edge, sized.confidence)
    IN /\ "executor" \in sized.computed => sized.size_usd = reference
       /\ "risk_manager" \in sized.computed => sized.suggested = reference

\* C11: a position that is closed by its stop loss, at exactly its stop-loss
\* price, loses its recorded risk_amount (to within one percent of it) and
\* never more
C11_StopLossCostsRiskAmount ==
    \A c \in Range(closed_trades) :
        (c.close_reason = "STOP_LOSS" /\ c.exit_price = c.stop_loss_price) =>
            /\ -c.pnl <= c.risk_amount
            /\ -c.pnl * 100 >= c.risk_amount * 99

\* C14: right after a process_opportunity call has opened a position on a
\* token, a second call for that token is rejected, by the open-position
\* check or the cooldown check, and the token has exactly one open position
C14_SecondCallRejected ==
    [][order_seq' > order_seq =>
         LET new == paper_positions'[Len(paper_positions')]
         IN \A o \in Opportunities :
              o.token = new.token_id =>
                /\ ~(evaluate_opportunity(o).approved)'
                /\ (evaluate_opportunity(o).reason)' \in {"open_position", "cooldown"}
                /\ Cardinality({i \in DOMAIN paper_positions' :
                                  paper_positions'[i].token_id = new.token_id}) = 1]_vars

\* a position was opened on a token at this instant and a second opportunity
\* on the token is turned away by the open-position check
C14_SecondCallTurnedAway ==
    \E o \in Matches :
        /\ \E i \in DOMAIN paper_positions :
              /\ paper_positions[i].token_id = o.token
              /\ paper_positions[i].timestamp = now
        /\ o.token \in DOMAIN traded_markets
        /\ evaluate_opportunity(o).reason = "open_position"
        /\ Cardinality({i \in DOMAIN paper_positions :
                          paper_positions[i].token_id = o.token}) = 1

\* C13: when the process is started again, the open positions it loads from
\* the store are the positions it had in memory, equal in every field
C13_ReloadReproducesPositions ==
    [][run_first_id' # run_first_id => paper_positions' = paper_positions]_vars

\* C15: a position entered at 0.50 that is swept at 0.60, 0.55 and 0.50 has
\* breakeven triggered and its stop at 0.50, stays open at 0.60 and 0.55, and
\* is closed at 0.50 with reason BREAKEVEN_STOP, exit price 0.50 and pnl 0
C15_BreakevenScenario ==
    \A p \in Range(paper_positions) :
        (p.price = 500 /\ p.highest_price = 500 /\ ~p.breakeven_triggered) =>
            LET p1 == LimitUpdate(p, 600).position
                t1 == LimitTrigger(p1, 600)
                p2 == LimitUpdate(p1, 550).position
                t2 == LimitTrigger(p2, 550)
                p3 == LimitUpdate(p2, 500).position
                t3 == LimitTrigger(p3, 500)
                closed == close_position(Ledger, p3, t3.exit_price, t3.reason, now,
                                         AllWrites).closed_trades
            IN /\ p.stop_loss_price = 425
               /\ p.take_profit_price = 650
               /\ p.breakeven_trigger_price = 550
               /\ p3.breakeven_triggered
               /\ p3.stop_loss_price = 500
               /\ t1.reason = "NONE"
               /\ t2.reason = "NONE"
               /\ t3.reason = "BREAKEVEN_STOP"
               /\ t3.exit_price = 500
               /\ closed[Len(closed)].pnl = 0

\* C17: close_position on an open position with entry price e, size s and
\* exit price x gives pnl (x - e)*s for a BUY and (e - x)*s for a SELL and
\* pnl_pct = pnl / (e*s), adds s*x to the balance and pnl to daily_pnl and
\* total_pnl, removes the position and appends one closed trade with the
\* given reason; for a BUY the balance ends at its value before the open
\* plus pnl
C17_CloseArithmetic ==
    \A i \in DOMAIN paper_positions :
      \A side \in {"BUY", "SELL"} : \A x \in ExitPrices :
        \A reason \in {"MANUAL", "STOP_LOSS", "TAKE_PROFIT"} :
          LET position == [paper_positions[i] EXCEPT !.side = side]
              before == [Ledger EXCEPT !.paper_positions[i] = position]
              after == close_position(before, position, x, reason, now, AllWrites)
              e == position.price
              sz == position.size
              pnl == IF side = "BUY" THEN (x - e) * sz ELSE (e - x) * sz
              trade == after.closed_trades[Len(after.closed_trades)]
          IN /\ after.paper_balance = paper_balance + sz * x
             /\ after.daily_pnl = daily_pnl + pnl
             /\ after.total_pnl = total_pnl + pnl
             /\ after.paper_positions =
                  SelectSeq(paper_positions, LAMBDA q : q.id # position.id)
             /\ Len(after.closed_trades) = Len(closed_trades) + 1
             /\ SubSeq(after.closed_trades, 1, Len(closed_trades)) = closed_trades
             /\ trade.id = position.id
             /\ trade.pnl = pnl
             /\ trade.pnl_pct = (pnl * 1000) \div (e * sz)
             /\ trade.close_reason = reason
             /\ trade.exit_price = x
             /\ side = "BUY" =>
                  after.paper_balance = (paper_balance + position.value) + pnl

\* the one position ever opened was closed by close_position at 0.26: pnl
\* 900, 30 percent of the notional 3000, and the balance is 10900
C17_ClosedWithProfit ==
    /\ order_seq = 1
    /\ paper_positions = <<>>
    /\ Len(closed_trades) = 1
    /\ closed_trades[1].close_reason = "MANUAL"
    /\ closed_trades[1].pnl = 900000
    /\ closed_trades[1].pnl_pct = 300
    /\ paper_balance = starting_capital + 900000
    /\ daily_pnl = 900000
    /\ total_pnl = 900000

C19_LedgerStepsDoNotOverlap ==
    /\ \A i, j \in DOMAIN closed_trades :
          closed_trades[i].id = closed_trades[j].id => i = j
    /\ \A p \in Range(paper_positions) : \A c \in Range(closed_trades) : p.id # c.id
    /\ \A i, j \in DOMAIN paper_positions :
          paper_positions[i].token_id = paper_positions[j].token_id => i = j
    /\ paper_balance = starting_capital + total_pnl - SumSeq(paper_positions, "value")
    /\ {p.id : p \in Range(paper_positions)} \cup {c.id : c \in Range(closed_trades)}
         = 1..order_seq

\* two handlers were suspended on the same market; one has resumed and
\* opened the position, the monitor has closed another position meanwhile,
\* and the second handler is still suspended
C19_HandlerSuspendedBesideOpenPosition ==
    \E m \in Matches :
        /\ pending[m] = 1
        /\ \E p \in Range(paper_positions) : p.token_id = m.token
        /\ closed_trades # <<>>

\* C20: a position that was at a limit in an iteration of the monitor in
\* which the close or the alert of another position raised is closed and
\* has had its alert sent
C20_OthersClosedAndReported ==
    \A id \in monitor.triggered \ monitor.raised :
        /\ \E c \in Range(closed_trades) : c.id = id
        /\ id \in monitor.reported

\* C21: no method of the RiskManager ends in an exception, whatever the
\* balance, the daily pnl and the argument: validate_trade returns a value
C21_ValidateTradeReturns ==
    validated.outcome # "ZeroDivisionError"

\* C22: after every completed open and every completed close the stored
\* ledger row (balance, daily pnl, total pnl) equals the ledger in memory
C22_LedgerRowFollowsOpenAndClose ==
    [][(/\ run_first_id' = run_first_id
        /\ \/ order_seq' > order_seq
           \/ Len(closed_trades') > Len(closed_trades))
       => db_bot_state' = save_bot_state(paper_balance', daily_pnl', total_pnl')]_vars

\* C23: a start leaves total_pnl equal to the sum of pnl over all stored
\* closed trades and daily_pnl equal to the sum over those exited on the
\* day of the start, whatever the stored ledger row held
C23_StartupRecomputesLedger ==
    [][run_first_id' # run_first_id =>
         /\ total_pnl' = SumSet(db_closed_trades', "pnl")
         /\ daily_pnl' = SumSet({r \in db_closed_trades' :
                                   LocalDay(r.exit_time) = LocalDay(now')}, "pnl")]_vars

\* a run started on the day after the only close, from a row that still
\* carried that day's loss
C23_StartedOnLaterDay ==
    /\ run_first_id > 1
    /\ trades_executed = 0
    /\ db_closed_trades # {}
    /\ \A r \in db_closed_trades : LocalDay(r.exit_time) < LocalDay(now)
    /\ total_pnl # 0
    /\ daily_pnl = 0

\* C24: every process_opportunity call, whether the opportunity is executed
\* or rejected, delivers exactly one trade-decision record to each
\* registered observer
C24_EveryCallNotifiesEveryObserver ==
    \A o \in Opportunities :
        LET decision == evaluate_opportunity(o)
            delivered == IF decision.approved
                         THEN execute_trade(decision, o, auto_trade_enabled, TRUE,
                                            {}).notified
                         ELSE <<>>
        IN /\ Len(delivered) = Len(callbacks)
           /\ \A i \in DOMAIN delivered : delivered[i].callback = callbacks[i]

\* C25: check_status decides by the first failing condition in the order
\* pause (an expired pause is cleared and evaluation goes on), daily loss
\* (a pause of 4 hours is armed), position count, exposure above 80%;
\* otherwise trading is allowed, however close the loss or the exposure is
\* to its limit
C25_CheckStatusOrder ==
    [][LET paused == trading_paused /\ (pause_until = NoTime \/ now <= pause_until)
           loss == daily_pnl * 100 <= -(paper_balance * max_daily_loss_pct)
           full == Len(paper_positions) >= max_concurrent_positions
           exposed == /\ paper_balance > 0
                      /\ SumSeq(paper_positions, "value") * 100 > 80 * paper_balance
           expected == IF paused THEN "paused"
                       ELSE IF loss THEN "daily_loss"
                       ELSE IF full THEN "max_positions"
                       ELSE IF exposed THEN "exposure"
                       ELSE ""
       IN now' = now =>
            /\ validated' # validated => validated'.status = expected
            /\ paused => UNCHANGED <<trading_paused, pause_until>>
            /\ ~paused /\ loss => trading_paused' /\ pause_until' = now + 4
            /\ ~paused /\ ~loss => ~trading_paused' /\ pause_until' = pause_until
            /\ can_trade <=> ~(paused \/ loss \/ full \/ exposed)]_vars

\* validate_trade was turned away by a check_status that found the daily
\* loss limit hit with the position count at its maximum, and armed the pause
C25_LossDecidedBeforePositionCount ==
    /\ validated.status = "daily_loss"
    /\ Len(paper_positions) >= max_concurrent_positions
    /\ trading_paused
    /\ pause_until = observed_at + pause_hours

\* C26: evaluate_opportunity rejects with the reason of the first failing
\* check in the order open position, cooldown, edge, confidence, liquidity,
\* daily loss, position count, price; a rejected decision has size 0 and a
\* reason; an approved one carries the size, shares = size / price and the
\* risk amount
C26_FirstFailingCheckDecides ==
    \A o \in [token : Tokens, edge : {20, 40}, confidence : {50, 80},
              liquidity : {500, 5000}, price : {0, 200}] :
        LET held == \E i \in DOMAIN paper_positions :
                        paper_positions[i].token_id = o.token
            cooling == /\ o.token \in DOMAIN traded_markets
                       /\ now < traded_markets[o.token] + MARKET_COOLDOWN_HOURS
            loss == daily_pnl * 100 <= -(paper_balance * max_daily_loss_pct)
            expected == IF held THEN "open_position"
                        ELSE IF cooling THEN "cooldown"
                        ELSE IF o.edge < min_edge_to_trade THEN "edge"
                        ELSE IF o.confidence < 60 THEN "confidence"
                        ELSE IF o.liquidity < 1000 THEN "liquidity"
                        ELSE IF loss THEN "daily_loss"
                        ELSE IF Len(paper_positions) >= max_concurrent_positions
                             THEN "max_positions"
                        ELSE IF o.price <= 0 THEN "invalid_price"
                        ELSE "approved"
            decision == evaluate_opportunity(o)
        IN /\ decision.reason = expected
           /\ decision.approved <=> expected = "approved"
           /\ ~decision.approved =>
                 decision.size_usd = 0 /\ decision.size_shares = 0 /\ decision.reason # ""
           /\ decision.approved =>
                 /\ decision.size_usd = SizeUsd(paper_balance, o.edge, o.confidence)
                 /\ decision.size_shares = decision.size_usd \div o.price
                 /\ decision.risk_amount = (paper_balance * risk_per_trade_pct) \div 100

\* an opportunity with too small an edge on a token in its cooldown window,
\* while the daily loss limit is hit, is rejected for the cooldown
C26_CooldownDecidesBeforeEdgeAndLoss ==
    /\ daily_pnl * 100 <= -(paper_balance * max_daily_loss_pct)
    /\ \E o \in Opportunities :
          /\ o.edge < min_edge_to_trade
          /\ evaluate_opportunity(o).reason = "cooldown"
    /\ \E o \in Opportunities : evaluate_opportunity(o).reason = "open_position"

\* C27: an execute_trade that opens the position records the time of the
\* trade for the token, counts the trade once and invokes every registered
\* callback once in registration order; whichever callbacks raise, the rest
\* still run, the position and the cooldown entry stay, and True is returned
C27_SuccessNotifiesEveryCallback ==
    /\ \A o \in {x \in Matches : x.token = WatchedToken} :
         \A decision \in Decisions(o) : \A auto_enabled \in BOOLEAN :
           \A raising \in SUBSET Range(callbacks) :
             LET r == execute_trade(decision, o, auto_enabled, TRUE, raising)
             IN Len(r.paper_positions) > Len(paper_positions) =>
                  /\ r.success
                  /\ r.paper_positions[Len(r.paper_positions)].token_id = o.token
                  /\ r.traded_markets[o.token] = now
                  /\ r.trades_executed = trades_executed + 1
                  /\ r.notified = [i \in DOMAIN callbacks |->
                                     [callback |-> callbacks[i], id |-> order_seq + 1]]
    /\ trades_executed = order_seq
    /\ Len(notified) = order_seq * Len(callbacks)
    /\ \A k \in DOMAIN notified :
          /\ notified[k].id = ((k - 1) \div Len(callbacks)) + 1
          /\ notified[k].callback = callbacks[((k - 1) % Len(callbacks)) + 1]

\* two trades were executed: each callback was invoked for the first, then
\* for the second, and the second position is open with its cooldown entry
C27_TwoTradesNotified ==
    /\ order_seq = 2
    /\ Len(notified) = 2 * Len(callbacks)
    /\ \E i \in DOMAIN paper_positions :
          /\ paper_positions[i].id = 2
          /\ traded_markets[paper_positions[i].token_id] = paper_positions[i].timestamp

\* C28: breakeven_triggered becomes true at the first sweep that observes a
\* price at or above breakeven_trigger_price and is true ever after; the
\* sweep that sets it moves the stop to the entry price (from where the
\* trailing step of the same sweep may raise it) and sets
\* trailing_stop_active to the configured flag; later sweeps never bring the
\* stop back down to the entry price
C28_BreakevenOnce ==
    /\ \A i \in DOMAIN paper_positions :
          LET p == paper_positions[i]
          IN p.id \in DOMAIN monitor.seen =>
               (p.breakeven_triggered <=> monitor.seen[p.id] >= p.breakeven_trigger_price)
    /\ \A j \in DOMAIN monitor.sweep.after :
          LET p == monitor.sweep.after[j]
              i == CHOOSE k \in DOMAIN monitor.sweep.before :
                       monitor.sweep.before[k].id = p.id
              q == monitor.sweep.before[i]
              trailing_stop_price == (p.highest_price * (100 - trailing_stop_pct)) \div 100
          IN /\ q.breakeven_triggered =>
                   /\ p.breakeven_triggered
                   /\ p.trailing_stop_active = q.trailing_stop_active
                   /\ p.stop_loss_price >= q.stop_loss_price
             /\ ~q.breakeven_triggered /\ p.breakeven_triggered =>
                   /\ monitor.sweep.observed[i] >= q.breakeven_trigger_price
                   /\ p.trailing_stop_active = use_trailing_stop
                   /\ p.stop_loss_price =
                        IF p.trailing_stop_active /\ trailing_stop_price > p.price
                        THEN trailing_stop_price
                        ELSE p.price

\* a position that went to breakeven in an earlier sweep, with the stop at
\* the entry price, has just been swept again at a price above the trigger
\* and is still open with the same stop
C28_SweptAgainAfterBreakeven ==
    \E j \in DOMAIN monitor.sweep.after :
        LET p == monitor.sweep.after[j]
        IN /\ \E k \in DOMAIN monitor.sweep.before :
                 /\ monitor.sweep.before[k].id = p.id
                 /\ monitor.sweep.before[k].breakeven_triggered
                 /\ monitor.sweep.observed[k] >= p.breakeven_trigger_price
           /\ p.breakeven_triggered
           /\ p.stop_loss_price = p.price

\* C29: after every sweep, each position still open has highest_price equal
\* to the highest of its entry price and all quotes observed for it since
\* entry; if its trailing stop is active its stop is the higher of the stop
\* it had (the entry price, if breakeven was set in this sweep) and
\* highest_price * (1 - trailing%); and it was written to the store in the
\* sweep exactly if its breakeven flag, trailing flag or stop changed
C29_SweepTracksHighestAndStop ==
    \A j \in DOMAIN monitor.sweep.after :
        LET p == monitor.sweep.after[j]
            i == CHOOSE k \in DOMAIN monitor.sweep.before :
                     monitor.sweep.before[k].id = p.id
            q == monitor.sweep.before[i]
            stop_before == IF p.breakeven_triggered /\ ~q.breakeven_triggered
                           THEN q.price
                           ELSE q.stop_loss_price
        IN /\ p.highest_price = monitor.seen[p.id]
           /\ p.trailing_stop_active =>
                 p.stop_loss_price =
                   Max(stop_before, (p.highest_price * (100 - trailing_stop_pct)) \div 100)
           /\ p.id \in monitor.sweep.written <=>
                 \/ p.breakeven_triggered # q.breakeven_triggered
                 \/ p.trailing_stop_active # q.trailing_stop_active
                 \/ p.stop_loss_price # q.stop_loss_price

\* C30: a position closed by a sweep because the quote is at or below its
\* stop (and below take-profit) gets the reason TRAILING_STOP if its trailing
\* stop is active, otherwise BREAKEVEN_STOP if breakeven was triggered,
\* otherwise STOP_LOSS, and is closed at the stop price
C30_StopReasonBySubState ==
    /\ \A r \in db_closed_trades :
          r.close_reason # "TAKE_PROFIT" =>
            /\ r.close_reason = IF r.trailing_stop_active = 1 THEN "TRAILING_STOP"
                                ELSE IF r.breakeven_triggered = 1 THEN "BREAKEVEN_STOP"
                                ELSE "STOP_LOSS"
            /\ r.exit_price = r.stop_loss_price
    /\ \A i \in DOMAIN paper_positions : \A chg \in PriceChanges :
          LET quote == CurrentPrice(paper_positions[i].price, chg)
              p == LimitUpdate(paper_positions[i], quote).position
              hit == LimitTrigger(p, quote)
          IN quote <= p.stop_loss_price /\ quote < p.take_profit_price =>
               /\ p.trailing_stop_active => hit.reason = "TRAILING_STOP"
               /\ ~p.trailing_stop_active /\ p.breakeven_triggered =>
                     hit.reason = "BREAKEVEN_STOP"
               /\ ~p.trailing_stop_active /\ ~p.breakeven_triggered =>
                     hit.reason = "STOP_LOSS"

\* the three markets were closed by sweeps with the three reasons
C30_AllThreeReasonsGiven ==
    \A reason \in {"STOP_LOSS", "BREAKEVEN_STOP", "TRAILING_STOP"} :
        \E r \in db_closed_trades : r.close_reason = reason

\* C31: when the quote of a sweep is both at or below the stop and at or
\* above take-profit, take-profit, looked at second, decides: the position
\* is closed once, with reason TAKE_PROFIT at take_profit_price
C31_TakeProfitWinsTie ==
    \A i \in DOMAIN monitor.sweep.before :
        LET q == monitor.sweep.before[i]
            quote == monitor.sweep.observed[i]
            stop == Max(IF ~q.breakeven_triggered /\ quote * 100 >= q.price * 110
                        THEN q.price ELSE q.stop_loss_price,
                        IF q.trailing_stop_active
                           \/ (~q.breakeven_triggered /\ quote * 100 >= q.price * 110
                               /\ use_trailing_stop)
                        THEN (Max(quote, q.highest_price) * 90) \div 100 ELSE 0)
            closes == {k \in DOMAIN monitor.sweep.closed :
                         monitor.sweep.closed[k].id = q.id}
        IN quote <= stop /\ quote >= q.take_profit_price =>
             /\ Cardinality(closes) = 1
             /\ \A k \in closes :
                   /\ monitor.sweep.closed[k].close_reason = "TAKE_PROFIT"
                   /\ monitor.sweep.closed[k].exit_price = q.take_profit_price
             /\ \A j \in DOMAIN monitor.sweep.after : monitor.sweep.after[j].id # q.id

\* a sweep quoted 0.15 for a position entered at 0.10 whose trailing stop
\* stood at 0.162, above its take-profit price 0.13, and closed it
C31_QuoteBetweenTakeProfitAndStop ==
    \E i \in DOMAIN monitor.sweep.before :
        /\ monitor.sweep.before[i].stop_loss_price > monitor.sweep.before[i].take_profit_price
        /\ monitor.sweep.observed[i] <= monitor.sweep.before[i].stop_loss_price
        /\ monitor.sweep.observed[i] >= monitor.sweep.before[i].take_profit_price
        /\ \E k \in DOMAIN monitor.sweep.closed :
              /\ monitor.sweep.closed[k].id = monitor.sweep.before[i].id
              /\ monitor.sweep.closed[k].close_reason = "TAKE_PROFIT"

\* the stop of position q once a sweep quoting quote has made its breakeven
\* and trailing updates
StopAfterUpdate(q, quote) ==
    LET breakeven_now == ~q.breakeven_triggered /\ quote * 100 >= q.price * 110
        trailing == q.trailing_stop_active \/ (breakeven_now /\ use_trailing_stop)
    IN Max(IF breakeven_now THEN q.price ELSE q.stop_loss_price,
           IF trailing THEN (Max(quote, q.highest_price) * 90) \div 100 ELSE 0)

\* C32: a position closed by the monitor is closed at its limit price, not
\* at the quote: at its stop as the sweep left it for STOP_LOSS,
\* BREAKEVEN_STOP and TRAILING_STOP, at take_profit_price for TAKE_PROFIT;
\* the realized pnl is computed from that price
C32_ClosedAtLimitPrice ==
    \A k \in DOMAIN monitor.sweep.closed :
        LET t == monitor.sweep.closed[k]
            i == CHOOSE j \in DOMAIN monitor.sweep.before :
                     monitor.sweep.before[j].id = t.id
            q == monitor.sweep.before[i]
        IN /\ t.close_reason \in {"STOP_LOSS", "BREAKEVEN_STOP", "TRAILING_STOP"} =>
                t.exit_price = StopAfterUpdate(q, monitor.sweep.observed[i])
           /\ t.close_reason = "TAKE_PROFIT" => t.exit_price = q.take_profit_price
           /\ t.close_reason \in {"STOP_LOSS", "BREAKEVEN_STOP", "TRAILING_STOP",
                                  "TAKE_PROFIT"}
           /\ t.pnl = (t.exit_price - q.price) * q.size

\* one sweep closed a position at its stop and another at take-profit, each
\* quoted beyond the limit
C32_ClosedBeyondBothLimits ==
    /\ \E k \in DOMAIN monitor.sweep.closed : \E i \in DOMAIN monitor.sweep.before :
          /\ monitor.sweep.before[i].id = monitor.sweep.closed[k].id
          /\ monitor.sweep.closed[k].close_reason = "STOP_LOSS"
          /\ monitor.sweep.observed[i] < monitor.sweep.closed[k].exit_price
    /\ \E k \in DOMAIN monitor.sweep.closed : \E i \in DOMAIN monitor.sweep.before :
          /\ monitor.sweep.before[i].id = monitor.sweep.closed[k].id
          /\ monitor.sweep.closed[k].close_reason = "TAKE_PROFIT"
          /\ monitor.sweep.observed[i] > monitor.sweep.closed[k].exit_price

\* C33: a sweep closes exactly the positions that trigger: a position whose
\* quote is at or below its stop or at or above its take-profit price is no
\* longer open when the sweep returns and is once in the returned list;
\* every other position is still open and not in the list
C33_SweepClosesExactlyTriggered ==
    /\ \A i \in DOMAIN monitor.sweep.before :
          LET q == monitor.sweep.before[i]
              quote == monitor.sweep.observed[i]
              triggers == \/ quote <= StopAfterUpdate(q, quote)
                          \/ quote >= q.take_profit_price
              listed == {k \in DOMAIN monitor.sweep.closed :
                           monitor.sweep.closed[k].id = q.id}
              open == {j \in DOMAIN monitor.sweep.after : monitor.sweep.after[j].id = q.id}
          IN /\ triggers => Cardinality(listed) = 1 /\ open = {}
             /\ ~triggers => listed = {} /\ Cardinality(open) = 1
    /\ \A k \in DOMAIN monitor.sweep.closed :
          \E i \in DOMAIN monitor.sweep.before :
              monitor.sweep.before[i].id = monitor.sweep.closed[k].id

\* a sweep of two positions returned one of them closed and left the other
\* open
C33_OneClosedOneLeftOpen ==
    /\ Len(monitor.sweep.before) = 2
    /\ Len(monitor.sweep.closed) = 1
    /\ Len(monitor.sweep.after) = 1
    /\ monitor.sweep.after[1].id # monitor.sweep.closed[1].id

\* C34: validate_trade returns False with the status's reason when
\* check_status disallows trading, False when the size exceeds equity *
\* max_position_pct, False when total exposure + size exceeds 80% of equity,
\* and (True, "OK") in every other case
C34_ValidateTradeDecides ==
    validated.outcome # "none" =>
        validated.outcome =
            IF validated.status # "" THEN "status"
            ELSE IF validated.size_usd * 100 > paper_balance * max_position_pct
                 THEN "size"
            ELSE IF (SumSeq(paper_positions, "value") + validated.size_usd) * 100
                      > 80 * paper_balance
                 THEN "exposure"
            ELSE "OK"

\* C35: in every state, also right after a restart with positions open,
\* cash balance + sum of size * entry price over the open positions =
\* starting capital + total realized pnl
C35_EquityConserved ==
    LET open_value == SumSeq([i \in DOMAIN paper_positions |->
                                [cost |-> paper_positions[i].size * paper_positions[i].price]],
                             "cost")
    IN paper_balance + open_value = starting_capital + total_pnl

C37_ReasonFixesPnlSign ==
    \A k \in DOMAIN closed_trades :
        LET r == closed_trades[k]
        IN r.side = "BUY" =>
             /\ r.close_reason = "STOP_LOSS" => r.pnl < 0
             /\ r.close_reason = "BREAKEVEN_STOP" => r.pnl = 0
             /\ r.close_reason = "TRAILING_STOP" => r.pnl >= 0
             /\ r.close_reason = "TAKE_PROFIT" => r.pnl > 0
             /\ r.close_reason \in {"STOP_LOSS", "BREAKEVEN_STOP",
                                     "TRAILING_STOP", "TAKE_PROFIT"}

\* one sweep closed a losing stop and a gaining trailing stop
C37_LosingAndGainingStops ==
    /\ \E k \in DOMAIN monitor.sweep.closed :
          /\ monitor.sweep.closed[k].close_reason = "STOP_LOSS"
          /\ monitor.sweep.closed[k].pnl < 0
    /\ \E k \in DOMAIN monitor.sweep.closed :
          /\ monitor.sweep.closed[k].close_reason = "TRAILING_STOP"
          /\ monitor.sweep.closed[k].pnl > 0

\* C38: every open position has trailing_stop_active only with
\* breakeven_triggered, a stop at or above entry once breakeven is triggered,
\* a stop of entry * (1 - stop_loss_pct) before that, and a highest_price at
\* or above entry
C38_OpenPositionInvariant ==
    \A i \in DOMAIN paper_positions :
        LET p == paper_positions[i]
        IN /\ p.trailing_stop_active => p.breakeven_triggered
           /\ p.breakeven_triggered => p.stop_loss_price >= p.price
           /\ ~p.breakeven_triggered =>
                 p.stop_loss_price = (p.price * (100 - stop_loss_pct)) \div 100
           /\ p.price <= p.highest_price

\* a sweep triggered breakeven on a position and left it open with its stop
\* at entry, next to a position that is still before breakeven
C38_BreakevenSetBySweepStillOpen ==
    /\ \E i \in DOMAIN monitor.sweep.before : \E j \in DOMAIN paper_positions :
          /\ paper_positions[j].id = monitor.sweep.before[i].id
          /\ ~monitor.sweep.before[i].breakeven_triggered
          /\ paper_positions[j].breakeven_triggered
          /\ paper_positions[j].stop_loss_price >= paper_positions[j].price
          /\ paper_positions[j].highest_price > paper_positions[j].price
    /\ \E j \in DOMAIN paper_positions : ~paper_positions[j].breakeven_triggered

\* C39: at the point of a sweep where the triggers of a position are
\* evaluated its stop_loss_price is below its take_profit_price, so the stop
\* condition and the take-profit condition are never both true for it
C39_StopBelowTakeProfitAtTriggers ==
    \A i \in DOMAIN monitor.sweep.before :
        LET q == monitor.sweep.before[i]
            quote == monitor.sweep.observed[i]
            p == LimitUpdate(q, quote).position
        IN /\ p.stop_loss_price < p.take_profit_price
           /\ ~(/\ p.stop_loss_price > 0
                /\ quote <= p.stop_loss_price
                /\ quote >= p.take_profit_price)

\* C40: on a first start with an empty trade history the paper balance that
\* the ledger holds, and that the risk gate and the sizer read, is the
\* configured starting capital, for every configured value
C40_FirstBalanceIsConfiguredCapital ==
    (db_closed_trades = {} /\ db_open_positions = {} /\ trades_executed = 0) =>
        /\ paper_balance = sized.starting_capital
        /\ "executor" \in sized.computed =>
              sized.size_usd = inline_size(sized.risk_pct, sized.sl_pct, sized.max_pct,
                                           sized.starting_capital, sized.edge,
                                           sized.confidence)
        /\ "risk_manager" \in sized.computed =>
              sized.suggested = suggest_position_size(sized.risk_pct, sized.sl_pct,
                                                      sized.max_pct,
                                                      sized.starting_capital,
                                                      sized.edge, sized.confidence)

====
